---- MODULE Spec2Model ----
(***************************************************************************)
(* Dependency / lineage graph engine of the model-driven platform.         *)
(*                                                                         *)
(*   services/dependency_graph.py   DependencyGraph  (the dependency index) *)
(*   generators/generate_graph.py   generate_graph   (the graph compiler)   *)
(*   services/graph_builder.py      GraphBuilder     (the query service)    *)
(*                                                                         *)
(* Entity ids of the dependency index are opaque strings in the source;    *)
(* they are the integers 1..NumIds here.  Names handled by the graph       *)
(* compiler keep their letter case, because the compiler lowercases them.  *)
(***************************************************************************)
EXTENDS Integers, Sequences, FiniteSets, TLC

VARIABLES
    entitiesFile,   \* content of specs/entities.json as DependencyGraph reads it
    nodes,          \* DependencyGraph.nodes : id -> EntityNode
    call,           \* the DependencyGraph query in progress, with its result
    specs,          \* the spec collections handed to generate_graph
    graphFile,      \* the persisted graph document <output_dir>/data/graph.json
    genResult,      \* what the last generate_graph call returned or raised
    passes,         \* the last two compile passes: the specs and the document written
    diskGraph,      \* the file at GraphBuilder.graph_path
    cache,          \* GraphBuilder._graph
    reads,          \* how often graph_path was opened and parsed
    gcall,          \* the GraphBuilder query in progress, with its result
    threads,        \* the callers of the query service, each at a statement of its handler
    run             \* a traversal in progress, loop round by loop round

vars == <<entitiesFile, nodes, call, specs, graphFile, genResult,
          passes, diskGraph, cache, reads, gcall, threads, run>>

\* the state of the GraphBuilder service
builderVars == <<diskGraph, cache, reads, gcall, threads>>

----------------------------------------------------------------------------
(* Bounds of the dependency index model *)

NumIds == 3

MaxRels == 2

MaxLen == 3

MaxInFlight == 2

Ids == 1..NumIds

----------------------------------------------------------------------------
(* Generic helpers *)

Min(S) == CHOOSE x \in S : \A y \in S : x <= y

RECURSIVE SeqOfSet(_)
\* a set of ids listed in increasing order
SeqOfSet(S) == IF S = {} THEN << >>
               ELSE <<Min(S)>> \o SeqOfSet(S \ {Min(S)})

\* all sequences over S of length at most n
SeqsUpTo(S, n) == UNION {[1..k -> S] : k \in 0..n}

Range(s) == {s[i] : i \in DOMAIN s}

\* dict assignment d[k] = v
Put(d, k, v) == [x \in (DOMAIN d) \cup {k} |-> IF x = k THEN v ELSE d[x]]

----------------------------------------------------------------------------
(* DependencyGraph.build_from_specs *)

EntityNode(entity_id) ==
    [id |-> entity_id, dependencies |-> {}, dependents |-> {}]

RECURSIVE CreateNodes(_, _)
\* first pass: one EntityNode per record, a later record of the same id
\* replaces the earlier node
CreateNodes(ns, entities) ==
    IF entities = << >> THEN ns
    ELSE CreateNodes(Put(ns, Head(entities).id, EntityNode(Head(entities).id)),
                     Tail(entities))

RECURSIVE AddRelationshipsUnguarded(_, _, _)
\* the second pass without the test `target in self.nodes`
AddRelationshipsUnguarded(ns, entity_id, rels) ==
    IF rels = << >> THEN ns
    ELSE LET target == Head(rels)
             a == IF entity_id \in DOMAIN ns
                  THEN [ns EXCEPT ![entity_id].dependencies = @ \cup {target}]
                  ELSE ns
             ns1 == IF entity_id \in DOMAIN ns /\ target \in DOMAIN ns
                    THEN [a EXCEPT ![target].dependents = @ \cup {entity_id}]
                    ELSE a
         IN  AddRelationshipsUnguarded(ns1, entity_id, Tail(rels))

RECURSIVE AddRelationships(_, _, _)
\* the relationships of one record: only when both ends are known
AddRelationships(ns, entity_id, rels) ==
    IF rels = << >> THEN ns
    ELSE LET target == Head(rels)
             ns1 == IF entity_id \in DOMAIN ns /\ target \in DOMAIN ns
                    THEN LET a == [ns EXCEPT ![entity_id].dependencies = @ \cup {target}]
                         IN  [a EXCEPT ![target].dependents = @ \cup {entity_id}]
                    ELSE ns
         IN  AddRelationships(ns1, entity_id, Tail(rels))

RECURSIVE BuildRelationships(_, _)
\* second pass over the records
BuildRelationships(ns, entities) ==
    IF entities = << >> THEN ns
    ELSE BuildRelationships(
             AddRelationships(ns, Head(entities).id, Head(entities).relationships),
             Tail(entities))

\* build_from_specs on an index ns: a missing file leaves the index alone
build_from_specs(ns, file) ==
    IF ~file.exists THEN ns
    ELSE BuildRelationships(CreateNodes(ns, file.entities), file.entities)

\* self.nodes = {} of __init__
EmptyNodes == << >>

----------------------------------------------------------------------------
(* DependencyGraph.get_dependencies / get_dependents *)

RECURSIVE VisitDependencies(_, _, _)
\* the while-loop of get_dependencies; to_visit is a stack.  The source
\* pushes the members of a set in the set's iteration order; every order
\* gives the same visited set, increasing order is taken here.
VisitDependencies(ns, visited, to_visit) ==
    IF to_visit = << >> THEN visited
    ELSE LET current == to_visit[Len(to_visit)]
             rest    == SubSeq(to_visit, 1, Len(to_visit) - 1)
         IN  IF current \in visited
             THEN VisitDependencies(ns, visited, rest)
             ELSE LET v2 == visited \cup {current}
                      push == IF current \in DOMAIN ns
                              THEN SeqOfSet({d \in ns[current].dependencies : d \notin v2})
                              ELSE << >>
                  IN  VisitDependencies(ns, v2, rest \o push)

get_dependencies_direct(ns, entity_id) ==
    IF entity_id \notin DOMAIN ns THEN {}
    ELSE ns[entity_id].dependencies \ {entity_id}

get_dependencies_keep_self(ns, entity_id) ==
    IF entity_id \notin DOMAIN ns THEN {}
    ELSE VisitDependencies(ns, {}, <<entity_id>>)

get_dependencies(ns, entity_id) ==
    IF entity_id \notin DOMAIN ns THEN {}
    ELSE VisitDependencies(ns, {}, <<entity_id>>) \ {entity_id}

RECURSIVE VisitDependents(_, _, _)
\* the while-loop of get_dependents
VisitDependents(ns, visited, to_visit) ==
    IF to_visit = << >> THEN visited
    ELSE LET current == to_visit[Len(to_visit)]
             rest    == SubSeq(to_visit, 1, Len(to_visit) - 1)
         IN  IF current \in visited
             THEN VisitDependents(ns, visited, rest)
             ELSE LET v2 == visited \cup {current}
                      push == IF current \in DOMAIN ns
                              THEN SeqOfSet({d \in ns[current].dependents : d \notin v2})
                              ELSE << >>
                  IN  VisitDependents(ns, v2, rest \o push)

\* get_dependents without the worklist: the direct dependents only
get_dependents_direct(ns, entity_id) ==
    IF entity_id \notin DOMAIN ns THEN {}
    ELSE ns[entity_id].dependents \ {entity_id}

get_dependents(ns, entity_id) ==
    IF entity_id \notin DOMAIN ns THEN {}
    ELSE VisitDependents(ns, {}, <<entity_id>>) \ {entity_id}

----------------------------------------------------------------------------
(* DependencyGraph.get_impact / can_parallelize / find_conflicts *)

get_impact_dependents_only(ns, entity_id) == get_dependents(ns, entity_id)

get_impact(ns, entity_id) == {entity_id} \cup get_dependents(ns, entity_id)

can_parallelize_dependents(ns, change_a, change_b) ==
    Cardinality(get_dependents(ns, change_a) \cap get_dependents(ns, change_b)) = 0

can_parallelize(ns, change_a, change_b) ==
    LET impact_a == get_impact(ns, change_a)
        impact_b == get_impact(ns, change_b)
    IN  Cardinality(impact_a \cap impact_b) = 0

RECURSIVE ConflictLoop(_, _, _, _)
\* the for-loop of find_conflicts
ConflictLoop(ns, impact, in_flight_entities, conflicts) ==
    IF in_flight_entities = << >> THEN conflicts
    ELSE LET in_flight == Head(in_flight_entities)
             overlap == impact \cap get_impact(ns, in_flight)
         IN  ConflictLoop(ns, impact, Tail(in_flight_entities),
                          IF overlap # {} THEN Append(conflicts, in_flight)
                          ELSE conflicts)

RECURSIVE ConflictLoopOnce(_, _, _, _)
ConflictLoopOnce(ns, impact, in_flight_entities, conflicts) ==
    IF in_flight_entities = << >> THEN conflicts
    ELSE LET in_flight == Head(in_flight_entities)
             overlap == impact \cap get_impact(ns, in_flight)
         IN  ConflictLoopOnce(ns, impact, Tail(in_flight_entities),
                          IF overlap # {} /\ in_flight \notin Range(conflicts)
                          THEN Append(conflicts, in_flight)
                          ELSE conflicts)

find_conflicts_once(ns, entity_id, in_flight_entities) ==
    ConflictLoopOnce(ns, get_impact(ns, entity_id), in_flight_entities, << >>)

find_conflicts(ns, entity_id, in_flight_entities) ==
    ConflictLoop(ns, get_impact(ns, entity_id), in_flight_entities, << >>)

----------------------------------------------------------------------------
(* DependencyGraph.get_change_order *)

\* in_degree = {e: 0 for e in entities}; graph = {e: [] for e in entities}
InitialDegrees(entities) ==
    [in_degree |-> [e \in Range(entities) |-> 0],
     graph     |-> [e \in Range(entities) |-> << >>]]

CountEdgesReversed(ns, entities, entity, st) ==
    IF entity \notin DOMAIN ns THEN st
    ELSE LET deps == {dep \in ns[entity].dependencies : dep \in Range(entities)}
         IN  [in_degree |-> [e \in DOMAIN st.in_degree |->
                                IF e \in deps THEN st.in_degree[e] + 1
                                ELSE st.in_degree[e]],
              graph     |-> [st.graph EXCEPT ![entity] = @ \o SeqOfSet(deps)]]

\* one round of the outer for-loop: every dependency of entity that is in the
\* input list gets entity appended to its graph list, and entity's in-degree
\* grows by one per such dependency.  The appends of one round go to different
\* lists, so the iteration order of the dependencies set has no effect.
CountEdges(ns, entities, entity, st) ==
    IF entity \notin DOMAIN ns THEN st
    ELSE LET deps == {dep \in ns[entity].dependencies : dep \in Range(entities)}
         IN  [in_degree |-> [st.in_degree EXCEPT ![entity] = @ + Cardinality(deps)],
              graph     |-> [d \in DOMAIN st.graph |->
                                IF d \in deps THEN Append(st.graph[d], entity)
                                ELSE st.graph[d]]]

RECURSIVE BuildInDegree(_, _, _, _)
\* the outer for-loop, over the input list as given (repeated ids included)
BuildInDegree(ns, entities, rest, st) ==
    IF rest = << >> THEN st
    ELSE BuildInDegree(ns, entities, Tail(rest),
                       CountEdges(ns, entities, Head(rest), st))

RECURSIVE Release(_, _, _)
\* for dependent in graph[current]: in_degree[dependent] -= 1; append when 0
Release(dependents, in_degree, queue) ==
    IF dependents = << >> THEN [in_degree |-> in_degree, queue |-> queue]
    ELSE LET dependent == Head(dependents)
             d2 == [in_degree EXCEPT ![dependent] = @ - 1]
         IN  Release(Tail(dependents), d2,
                     IF d2[dependent] = 0 THEN Append(queue, dependent) ELSE queue)

RECURSIVE KahnLoopLifo(_, _, _, _)
\* the loop with queue.pop() in place of queue.pop(0)
KahnLoopLifo(graph, in_degree, queue, result) ==
    IF queue = << >> THEN result
    ELSE LET current == queue[Len(queue)]
             r == Release(graph[current], in_degree,
                          SubSeq(queue, 1, Len(queue) - 1))
         IN  KahnLoopLifo(graph, r.in_degree, r.queue, Append(result, current))

RECURSIVE KahnLoop(_, _, _, _)
\* while queue: current = queue.pop(0); result.append(current); ...
KahnLoop(graph, in_degree, queue, result) ==
    IF queue = << >> THEN result
    ELSE LET current == Head(queue)
             r == Release(graph[current], in_degree, Tail(queue))
         IN  KahnLoop(graph, r.in_degree, r.queue, Append(result, current))

get_change_order(ns, entities) ==
    LET st == BuildInDegree(ns, entities, entities, InitialDegrees(entities))
        queue == SelectSeq(entities, LAMBDA e : st.in_degree[e] = 0)
        result == KahnLoop(st.graph, st.in_degree, queue, << >>)
    IN  IF Len(result) # Len(entities) THEN entities ELSE result

----------------------------------------------------------------------------
(* The dependency index as a state machine: the index is built once from    *)
(* specs/entities.json by the constructor, then queried.                    *)

\* entities.json with the records 1..k, record i declaring the relationships
\* {t : <<i, t>> \in rel}; targets beyond k name entities without a record
FileOf(k, rel) ==
    [exists   |-> TRUE,
     entities |-> [i \in 1..k |->
                      [id |-> i,
                       relationships |-> SeqOfSet({t \in Ids : <<i, t>> \in rel})]]]

NoFile == [exists |-> FALSE, entities |-> << >>]

\* the declared relationships of a file: at most MaxRels of them
RelationSets == {r \in SUBSET (Ids \X Ids) : Cardinality(r) <= MaxRels}

NoCall == [op |-> "none"]

NoSpecs == [entities |-> << >>, algorithms |-> << >>, workflows |-> << >>]

NoDocument == [exists |-> FALSE]

\* self._graph = None
None == [loaded |-> FALSE]

\* no traversal under way
NoRun == [op |-> "none", done |-> TRUE]

\* no GraphBuilder in use, no compile pass so far, no traversal under way
RestQuiet ==
    /\ passes = << >>
    /\ diskGraph = NoDocument
    /\ cache = None
    /\ reads = 0
    /\ gcall = NoCall
    /\ threads = << >>
    /\ run = NoRun

Init ==
    /\ \/ entitiesFile = NoFile
       \/ \E k \in 0..NumIds, rel \in RelationSets :
             /\ \A p \in rel : p[1] <= k
             /\ entitiesFile = FileOf(k, rel)
    /\ nodes = build_from_specs(EmptyNodes, entitiesFile)
    /\ call = NoCall
    /\ specs = NoSpecs
    /\ graphFile = NoDocument
    /\ genResult = [status |-> "none"]
    /\ RestQuiet

Idle == call.op = "none"

GetDependencies ==
    /\ Idle
    /\ \E id \in Ids :
          call' = [op |-> "get_dependencies", entity_id |-> id,
                   result |-> get_dependencies(nodes, id)]
    /\ UNCHANGED <<entitiesFile, nodes, specs, graphFile, genResult, passes, builderVars, run>>

GetDependents ==
    /\ Idle
    /\ \E id \in Ids :
          call' = [op |-> "get_dependents", entity_id |-> id,
                   result |-> get_dependents(nodes, id)]
    /\ UNCHANGED <<entitiesFile, nodes, specs, graphFile, genResult, passes, builderVars, run>>

GetImpact ==
    /\ Idle
    /\ \E id \in Ids :
          call' = [op |-> "get_impact", entity_id |-> id,
                   result |-> get_impact(nodes, id)]
    /\ UNCHANGED <<entitiesFile, nodes, specs, graphFile, genResult, passes, builderVars, run>>

CanParallelize ==
    /\ Idle
    /\ \E a \in Ids, b \in Ids :
          call' = [op |-> "can_parallelize", change_a |-> a, change_b |-> b,
                   result |-> can_parallelize(nodes, a, b)]
    /\ UNCHANGED <<entitiesFile, nodes, specs, graphFile, genResult, passes, builderVars, run>>

FindConflicts ==
    /\ Idle
    /\ \E id \in Ids, inFlight \in SeqsUpTo(Ids, MaxInFlight) :
          call' = [op |-> "find_conflicts", entity_id |-> id,
                   in_flight_entities |-> inFlight,
                   result |-> find_conflicts(nodes, id, inFlight)]
    /\ UNCHANGED <<entitiesFile, nodes, specs, graphFile, genResult, passes, builderVars, run>>

GetChangeOrder ==
    /\ Idle
    /\ \E ids \in SeqsUpTo(Ids, MaxLen) :
          call' = [op |-> "get_change_order", entities |-> ids,
                   result |-> get_change_order(nodes, ids)]
    /\ UNCHANGED <<entitiesFile, nodes, specs, graphFile, genResult, passes, builderVars, run>>

\* the caller takes the result; the index is ready for the next query
Return ==
    /\ ~Idle
    /\ call' = NoCall
    /\ UNCHANGED <<entitiesFile, nodes, specs, graphFile, genResult, passes, builderVars, run>>

Next ==
    \/ GetDependencies
    \/ GetDependents
    \/ GetImpact
    \/ CanParallelize
    \/ FindConflicts
    \/ GetChangeOrder
    \/ Return

Spec == Init /\ [][Next]_vars

----------------------------------------------------------------------------
(* Reference notions the claims are stated with.  They are defined on the   *)
(* adjacency sets directly, not through the worklist of the queries.        *)

\* s depends directly on t
DependsOn(ns) ==
    {p \in (DOMAIN ns) \X (DOMAIN ns) : p[2] \in ns[p[1]].dependencies}

\* t is a direct dependent of s
DependedBy(ns) ==
    {p \in (DOMAIN ns) \X (DOMAIN ns) : p[2] \in ns[p[1]].dependents}

RECURSIVE TransitiveClosure(_)
\* pairs joined by a path of one or more edges of R
TransitiveClosure(R) ==
    LET R2 == R \cup {<<pq[1][1], pq[2][2]>> :
                         pq \in {x \in R \X R : x[1][2] = x[2][1]}}
    IN  IF R2 = R THEN R ELSE TransitiveClosure(R2)

Reachable(R, x) == {p[2] : p \in {q \in TransitiveClosure(R) : q[1] = x}}

Acyclic(R) == \A p \in TransitiveClosure(R) : p[1] # p[2]

\* the direct dependencies with both ends among the ids of the list
Induced(ns, ids) ==
    {p \in DependsOn(ns) : p[1] \in Range(ids) /\ p[2] \in Range(ids)}

Distinct(s) == \A i, j \in DOMAIN s : i # j => s[i] # s[j]

Count(s, x) == Cardinality({i \in DOMAIN s : s[i] = x})

IsPermutation(r, s) ==
    /\ Len(r) = Len(s)
    /\ \A x \in Range(r) \cup Range(s) : Count(r, x) = Count(s, x)

OrderCall == call.op = "get_change_order"

----------------------------------------------------------------------------
(* C1: for a list of pairwise distinct ids whose induced dependency         *)
(* subgraph is acyclic, get_change_order returns a permutation of the list  *)
(* in which every id comes after each of its direct dependencies that is    *)
(* in the list.                                                             *)
C1_ChangeOrderTopological ==
    (OrderCall /\ Distinct(call.entities) /\ Acyclic(Induced(nodes, call.entities)))
    => /\ IsPermutation(call.result, call.entities)
       /\ \A i, j \in DOMAIN call.result :
             <<call.result[i], call.result[j]>> \in Induced(nodes, call.entities)
             => j < i

\* a list that had to be reordered
C1_Witness ==
    /\ OrderCall
    /\ Distinct(call.entities)
    /\ Acyclic(Induced(nodes, call.entities))
    /\ Induced(nodes, call.entities) # {}
    /\ call.result # call.entities

(* C2: for every list whose induced dependency subgraph contains a cycle,   *)
(* get_change_order returns the input list unchanged.                       *)
C2_CycleReturnsInput ==
    (OrderCall /\ ~Acyclic(Induced(nodes, call.entities)))
    => call.result = call.entities

(* C3: can_parallelize(a, b) is true exactly when the impact sets of a and  *)
(* b are disjoint; it is symmetric, and false for a = b.                    *)
C3_ParallelizeIffDisjoint ==
    call.op = "can_parallelize"
    => /\ call.result =
             (get_impact(nodes, call.change_a) \cap get_impact(nodes, call.change_b) = {})
       /\ call.result = can_parallelize(nodes, call.change_b, call.change_a)
       /\ call.change_a = call.change_b => call.result = FALSE

\* two different entities that share a dependent
C3_Witness ==
    /\ call.op = "can_parallelize"
    /\ call.change_a # call.change_b
    /\ call.change_a \notin get_impact(nodes, call.change_b)
    /\ call.change_b \notin get_impact(nodes, call.change_a)
    /\ call.result = FALSE

(* C4: get_dependencies(id) is the set of ids reachable from id by one or   *)
(* more dependencies edges, id removed; get_dependents(id) the same over    *)
(* dependents edges; an id without a node gives the empty set.              *)
C4_TransitiveClosure ==
    /\ call.op = "get_dependencies"
       => call.result = IF call.entity_id \in DOMAIN nodes
                        THEN Reachable(DependsOn(nodes), call.entity_id) \ {call.entity_id}
                        ELSE {}
    /\ call.op = "get_dependents"
       => call.result = IF call.entity_id \in DOMAIN nodes
                        THEN Reachable(DependedBy(nodes), call.entity_id) \ {call.entity_id}
                        ELSE {}

\* a dependency that is only reached through another entity
C4_Witness ==
    /\ call.op = "get_dependencies"
    /\ \E y \in call.result : y \notin nodes[call.entity_id].dependencies

(* C5: id is never a member of get_dependencies(id) or get_dependents(id),  *)
(* also when a cycle or a declared self-relationship leads back to id.      *)
C5_SelfExcluded ==
    call.op \in {"get_dependencies", "get_dependents"}
    => call.entity_id \notin call.result

\* a cycle through id that passes through other entities
C5_Witness ==
    /\ call.op = "get_dependencies"
    /\ call.entity_id \in DOMAIN nodes
    /\ call.entity_id \in Reachable(DependsOn(nodes), call.entity_id)
    /\ call.result # {}

(* C6: get_impact(id) is {id} united with get_dependents(id), for known and *)
(* unknown ids; id is always a member.                                      *)
C6_ImpactIsSelfAndDependents ==
    call.op = "get_impact"
    => /\ call.result = {call.entity_id} \cup get_dependents(nodes, call.entity_id)
       /\ call.result = {call.entity_id}
                        \cup (IF call.entity_id \in DOMAIN nodes
                              THEN Reachable(DependedBy(nodes), call.entity_id)
                              ELSE {})
       /\ call.entity_id \in call.result

\* an entity with a dependent that is not a direct one
C6_Witness ==
    /\ call.op = "get_impact"
    /\ call.entity_id \in DOMAIN nodes
    /\ \E y \in call.result :
          y # call.entity_id /\ y \notin nodes[call.entity_id].dependents

(* C7: find_conflicts(id, inFlight) is the subsequence of inFlight, in      *)
(* input order and with repeated entries kept, of the entries whose impact  *)
(* set meets that of id: the entries that cannot run in parallel with id.   *)
C7_ConflictsSubsequence ==
    call.op = "find_conflicts"
    => LET impact == get_impact(nodes, call.entity_id)
           conflicting == {x \in Range(call.in_flight_entities) :
                              get_impact(nodes, x) \cap impact # {}}
       IN  /\ call.result =
                 SelectSeq(call.in_flight_entities, LAMBDA x : x \in conflicting)
           /\ \A x \in Range(call.in_flight_entities) :
                 (x \in conflicting) = ~can_parallelize(nodes, call.entity_id, x)

\* the first in-flight entry is dropped, the second is kept
C7_Witness ==
    /\ call.op = "find_conflicts"
    /\ Len(call.in_flight_entities) = 2
    /\ call.result = <<call.in_flight_entities[2]>>
    /\ call.in_flight_entities[2] # call.entity_id

----------------------------------------------------------------------------
(* generators/generate_graph.py: the graph compiler                         *)

\* total number of records (entities + algorithms + workflows) of one input
MaxRecords == 2

\* edges of a persisted graph whose lineage is asked for
MaxEdges == 3

\* entities and declared relationships of the indexes whose risk is analysed
NumRiskIds == 4

MaxRiskRels == 3

\* callers with a request to the query service in flight
NumCallers == 2

\* readings of the clock generated_at is taken from
MaxClock == 2

\* a key the record does not carry
NoKey == "<no key>"

\* dict.get(key, default)
Get(value, default) == IF value = NoKey THEN default ELSE value

\* str.lower() on the names that occur in the inputs
Lower(name) ==
    CASE name = "Order" -> "order"
      [] name = "Item"  -> "item"
      [] name = "Ghost" -> "ghost"
      [] OTHER          -> name

\* f"asset.entity.{...}", f"algo.compute.{...}", f"wf.process.{...}": the
\* prefixes differ and none is a prefix of another, so the id is the pair
Concat(prefix, suffix) == <<prefix, suffix>>

entity_to_node(entity) ==
    LET name == entity.name
        name_lower == Lower(name)
    IN  [id |-> Concat("asset.entity", name_lower),
         type |-> "ASSET",
         label |-> name,
         metadata |-> [owner |-> "System",
                       business_criticality |-> "MEDIUM",
                       fields_count |-> Len(entity.fields)],
         status_source |-> <<"hook.entity", name_lower, "_status">>]

algorithm_to_node(algorithm) ==
    LET algo_id == Get(algorithm.id, Get(algorithm.name, "unknown"))
        name == Get(algorithm.name, algo_id)
    IN  [id |-> Concat("algo.compute", algo_id),
         type |-> "ALGORITHM",
         label |-> name,
         metadata |-> [owner |-> "System", business_criticality |-> "MEDIUM"]]

workflow_to_node(workflow) ==
    LET wf_id == Get(workflow.id, Get(workflow.name, "unknown"))
        name == Get(workflow.name, wf_id)
    IN  [id |-> Concat("wf.process", wf_id),
         type |-> "WORKFLOW",
         label |-> name,
         metadata |-> [owner |-> "System", business_criticality |-> "HIGH",
                       sla |-> "None"]]

RECURSIVE FieldEdgesUnchecked(_, _, _)
FieldEdgesUnchecked(entity_id, fields, node_ids) ==
    IF fields = << >> THEN << >>
    ELSE LET field == Head(fields)
             ref_entity == Lower(field.references)
             ref_id == Concat("asset.entity", ref_entity)
             here == IF field.type = "uuid" /\ field.references # NoKey
                     THEN <<[source |-> entity_id, target |-> ref_id,
                             relation |-> "DEPENDS_ON",
                             semantics |-> <<field.name, "references", ref_entity>>]>>
                     ELSE << >>
         IN  here \o FieldEdgesUnchecked(entity_id, Tail(fields), node_ids)

RECURSIVE FieldEdges(_, _, _)
\* for field in entity.get('fields', []): the structural-reference rule
FieldEdges(entity_id, fields, node_ids) ==
    IF fields = << >> THEN << >>
    ELSE LET field == Head(fields)
             ref_entity == Lower(field.references)
             ref_id == Concat("asset.entity", ref_entity)
             here == IF /\ field.type = "uuid" /\ field.references # NoKey
                        /\ ref_id \in node_ids
                     THEN <<[source |-> entity_id, target |-> ref_id,
                             relation |-> "DEPENDS_ON",
                             semantics |-> <<field.name, "references", ref_entity>>]>>
                     ELSE << >>
         IN  here \o FieldEdges(entity_id, Tail(fields), node_ids)

RECURSIVE EntityEdges(_, _)
\* for entity in specs['entities']['entities']
EntityEdges(entities, node_ids) ==
    IF entities = << >> THEN << >>
    ELSE FieldEdges(Concat("asset.entity", Lower(Head(entities).name)),
                    Head(entities).fields, node_ids)
         \o EntityEdges(Tail(entities), node_ids)

RECURSIVE FlowEdgesUnchecked(_, _, _, _)
FlowEdgesUnchecked(wf_id, names, relation, node_ids) ==
    IF names = << >> THEN << >>
    ELSE <<[source |-> wf_id,
            target |-> Concat("asset.entity", Lower(Head(names))),
            relation |-> relation,
            semantics |-> <<"Workflow", relation, Head(names)>>]>>
         \o FlowEdgesUnchecked(wf_id, Tail(names), relation, node_ids)

RECURSIVE FlowEdges(_, _, _, _)
\* for produces in workflow.get('produces', []), and the same for consumes
FlowEdges(wf_id, names, relation, node_ids) ==
    IF names = << >> THEN << >>
    ELSE LET entity_id == Concat("asset.entity", Lower(Head(names)))
             here == IF entity_id \in node_ids
                     THEN <<[source |-> wf_id, target |-> entity_id,
                             relation |-> relation,
                             semantics |-> <<"Workflow", relation, Head(names)>>]>>
                     ELSE << >>
         IN  here \o FlowEdges(wf_id, Tail(names), relation, node_ids)

RECURSIVE WorkflowEdgesConsumesFirst(_, _)
\* the two inner loops in the other order
WorkflowEdgesConsumesFirst(workflows, node_ids) ==
    IF workflows = << >> THEN << >>
    ELSE LET workflow == Head(workflows)
             wf_id == Concat("wf.process",
                             Get(workflow.id, Get(workflow.name, "unknown")))
         IN  FlowEdges(wf_id, workflow.consumes, "CONSUMES", node_ids)
             \o FlowEdges(wf_id, workflow.produces, "PRODUCES", node_ids)
             \o WorkflowEdgesConsumesFirst(Tail(workflows), node_ids)

RECURSIVE WorkflowEdges(_, _)
\* for workflow in specs['workflows']['workflows']
WorkflowEdges(workflows, node_ids) ==
    IF workflows = << >> THEN << >>
    ELSE LET workflow == Head(workflows)
             wf_id == Concat("wf.process",
                             Get(workflow.id, Get(workflow.name, "unknown")))
         IN  FlowEdges(wf_id, workflow.produces, "PRODUCES", node_ids)
             \o FlowEdges(wf_id, workflow.consumes, "CONSUMES", node_ids)
             \o WorkflowEdges(Tail(workflows), node_ids)

build_edges(sp, ns) ==
    LET node_ids == {ns[i].id : i \in DOMAIN ns}
    IN  EntityEdges(sp.entities, node_ids) \o WorkflowEdges(sp.workflows, node_ids)

\* entity['name'] of entity_to_node raises KeyError on a record without name
RaisesKeyError(sp) ==
    \E i \in DOMAIN sp.entities : sp.entities[i].name = NoKey

\* the nodes list of generate_graph: entities, then algorithms, then workflows
build_nodes(sp) ==
    [i \in DOMAIN sp.entities |-> entity_to_node(sp.entities[i])]
    \o [i \in DOMAIN sp.algorithms |-> algorithm_to_node(sp.algorithms[i])]
    \o [i \in DOMAIN sp.workflows |-> workflow_to_node(sp.workflows[i])]

\* the graph document of generate_graph, generated_at left out
graph_document(sp) ==
    LET ns == build_nodes(sp)
    IN  [exists |-> TRUE, version |-> "2.0", nodes |-> ns, edges |-> build_edges(sp, ns)]

----------------------------------------------------------------------------
(* The compiler as a state machine: one compile pass over given specs.      *)

Field(name, type, references) ==
    [name |-> name, type |-> type, references |-> references]

\* field lists of an entity record: a reference to an entity that may have a
\* node, a reference to an entity nobody declares (Ghost), a field that is
\* not a uuid, a uuid without references, and two references in a row
FieldLists ==
    {<< >>,
     <<Field("order_id", "uuid", "Order")>>,
     <<Field("ghost_id", "uuid", "Ghost")>>,
     <<Field("note", "string", "Order")>>,
     <<Field("id", "uuid", NoKey)>>,
     <<Field("item_id", "uuid", "Item"), Field("order_id", "uuid", "Order")>>}

EntityRecords == [name : {"Order", "order", "Item", NoKey}, fields : FieldLists]

AlgorithmRecords == [id : {"score", NoKey}, name : {"score", NoKey}]

\* (produces, consumes) of a workflow record
FlowPairs ==
    {<< << >>, << >> >>,
     << <<"Order">>, << >> >>,
     << << >>, <<"Order">> >>,
     << <<"Ghost">>, <<"Item">> >>,
     << <<"Item", "Order">>, <<"Order", "Ghost">> >>}

WorkflowRecords ==
    {[id |-> i, name |-> n, produces |-> f[1], consumes |-> f[2]] :
        i \in {"ingest", NoKey}, n \in {"ingest", NoKey}, f \in FlowPairs}

\* how many records of each kind an input holds
RecordCounts ==
    {t \in (0..MaxRecords) \X (0..MaxRecords) \X (0..MaxRecords) :
        t[1] + t[2] + t[3] <= MaxRecords}

\* <output_dir>/data/graph.json
GraphPath == <<"output_dir", "data", "graph.json">>

InitGen ==
    /\ \E k \in RecordCounts :
          \E es \in [1..k[1] -> EntityRecords],
             al \in [1..k[2] -> AlgorithmRecords],
             ws \in [1..k[3] -> WorkflowRecords] :
             specs = [entities |-> es, algorithms |-> al, workflows |-> ws]
    /\ graphFile = NoDocument
    /\ genResult = [status |-> "none"]
    /\ entitiesFile = NoFile
    /\ nodes = EmptyNodes
    /\ call = NoCall
    /\ RestQuiet

\* generate_graph(specs, output_dir): the nodes, the edges, the document, the
\* write.  A KeyError leaves before the file is opened.
GenerateGraph ==
    /\ IF RaisesKeyError(specs)
       THEN /\ genResult' = [status |-> "KeyError"]
            /\ UNCHANGED graphFile
       ELSE /\ graphFile' = graph_document(specs)
            /\ genResult' = [status |-> "returned", paths |-> <<GraphPath>>]
    /\ UNCHANGED <<specs, entitiesFile, nodes, call, passes, builderVars, run>>

NextGen == GenerateGraph

SpecGen == InitGen /\ [][NextGen]_vars

----------------------------------------------------------------------------
(* Properties of the compiled document *)

NodeIds(doc) == {doc.nodes[i].id : i \in DOMAIN doc.nodes}

\* a reference field or a produces/consumes entry naming an entity that has
\* no node in the document
DanglingReference(sp, doc) ==
    \/ \E i \in DOMAIN sp.entities : \E j \in DOMAIN sp.entities[i].fields :
          LET field == sp.entities[i].fields[j]
          IN  /\ field.type = "uuid"
              /\ field.references # NoKey
              /\ Concat("asset.entity", Lower(field.references)) \notin NodeIds(doc)
    \/ \E i \in DOMAIN sp.workflows :
          \E n \in Range(sp.workflows[i].produces) \cup Range(sp.workflows[i].consumes) :
             Concat("asset.entity", Lower(n)) \notin NodeIds(doc)

(* C8: in every document generate_graph writes, the source and the target   *)
(* of every edge are ids of nodes of that document.                         *)
C8_EdgesReferenceNodes ==
    graphFile.exists
    => \A i \in DOMAIN graphFile.edges :
          /\ graphFile.edges[i].source \in NodeIds(graphFile)
          /\ graphFile.edges[i].target \in NodeIds(graphFile)

\* a document with an edge, compiled from specs that also hold a reference
\* to an entity without a node
C8_Witness ==
    /\ graphFile.exists
    /\ graphFile.edges # << >>
    /\ DanglingReference(specs, graphFile)

\* an entity record without name; a workflow or algorithm record without
\* both id and name
MalformedEntity(entity) == entity.name = NoKey

MalformedKeyed(record) == record.id = NoKey /\ record.name = NoKey

HasMalformed(sp) ==
    \/ \E i \in DOMAIN sp.entities : MalformedEntity(sp.entities[i])
    \/ \E i \in DOMAIN sp.algorithms : MalformedKeyed(sp.algorithms[i])
    \/ \E i \in DOMAIN sp.workflows : MalformedKeyed(sp.workflows[i])

(* C9: in every document generate_graph writes, no two nodes have the same  *)
(* id.  Stated here on inputs whose records all carry their name or id, so  *)
(* that the shared id is not the "unknown" of a malformed record.           *)
C9_NodeIdsUnique ==
    (graphFile.exists /\ ~HasMalformed(specs))
    => \A i, j \in DOMAIN graphFile.nodes :
          i # j => graphFile.nodes[i].id # graphFile.nodes[j].id

ValidOnly(sp) ==
    [entities   |-> SelectSeq(sp.entities, LAMBDA e : ~MalformedEntity(e)),
     algorithms |-> SelectSeq(sp.algorithms, LAMBDA a : ~MalformedKeyed(a)),
     workflows  |-> SelectSeq(sp.workflows, LAMBDA w : ~MalformedKeyed(w))]

RejectedOf(sp) ==
    SelectSeq(sp.entities, MalformedEntity)
    \o SelectSeq(sp.algorithms, MalformedKeyed)
    \o SelectSeq(sp.workflows, MalformedKeyed)

(* C10: when a record is malformed, generate_graph rejects only that        *)
(* record: the compile completes, the document holds the nodes and edges of *)
(* the remaining valid records and no node for the malformed one, and the   *)
(* rejected records are reported to the caller.                             *)
C10_MalformedRejectedAlone ==
    (genResult.status # "none" /\ HasMalformed(specs))
    => /\ genResult.status = "returned"
       /\ graphFile.exists
       /\ graphFile.nodes = build_nodes(ValidOnly(specs))
       /\ graphFile.edges = build_edges(ValidOnly(specs), build_nodes(ValidOnly(specs)))
       /\ "rejected" \in DOMAIN genResult
       /\ genResult.rejected = RejectedOf(specs)

----------------------------------------------------------------------------
(* build_edges called on its own, with a node list that need not hold a     *)
(* node for every record of the specs.                                      *)

\* the elements of seq at the positions in S, in their order
Keep(seq, S) == [k \in 1..Cardinality(S) |-> seq[SeqOfSet(S)[k]]]

\* the node lists build_edges is called with: the nodes of the specs, the
\* same without one of them, and the empty list
NodeSublists(all) ==
    {all, << >>} \cup {Keep(all, DOMAIN all \ {i}) : i \in DOMAIN all}

\* build_edges(specs, nodes): entity['name'] raises KeyError as it does in
\* entity_to_node; otherwise the list of edges comes back
BuildEdges ==
    /\ IF RaisesKeyError(specs)
       THEN call' = [op |-> "build_edges", raised |-> "KeyError"]
       ELSE \E ns \in NodeSublists(build_nodes(specs)) :
               call' = [op |-> "build_edges", nodes |-> ns,
                        result |-> build_edges(specs, ns)]
    /\ UNCHANGED <<specs, entitiesFile, nodes, graphFile, genResult,
                   passes, builderVars, run>>

\* one call per run: build_edges on its own, or generate_graph
NextEdges ==
    \/ call = NoCall /\ GenerateGraph
    \/ genResult.status = "none" /\ BuildEdges

SpecEdges == InitGen /\ [][NextEdges]_vars

\* the references of the specs: uuid fields with a references entry, by
\* entity and field position, and produces / consumes entries, by workflow
\* and position
FieldRefs(sp) ==
    UNION {{<<"DEPENDS_ON", i, j>> :
               j \in {k \in DOMAIN sp.entities[i].fields :
                         /\ sp.entities[i].fields[k].type = "uuid"
                         /\ sp.entities[i].fields[k].references # NoKey}} :
           i \in DOMAIN sp.entities}

FlowRefs(sp) ==
    UNION {{<<"PRODUCES", i, j>> : j \in DOMAIN sp.workflows[i].produces}
           \cup {<<"CONSUMES", i, j>> : j \in DOMAIN sp.workflows[i].consumes} :
           i \in DOMAIN sp.workflows}

Refs(sp) == FieldRefs(sp) \cup FlowRefs(sp)

\* the entity a reference names
RefName(sp, r) ==
    CASE r[1] = "DEPENDS_ON" -> sp.entities[r[2]].fields[r[3]].references
      [] r[1] = "PRODUCES"   -> sp.workflows[r[2]].produces[r[3]]
      [] r[1] = "CONSUMES"   -> sp.workflows[r[2]].consumes[r[3]]

RefTarget(sp, r) == Concat("asset.entity", Lower(RefName(sp, r)))

RefSource(sp, r) ==
    IF r[1] = "DEPENDS_ON"
    THEN Concat("asset.entity", Lower(sp.entities[r[2]].name))
    ELSE Concat("wf.process",
                Get(sp.workflows[r[2]].id, Get(sp.workflows[r[2]].name, "unknown")))

\* an edge of the list stands for reference r
EdgeFor(sp, r, edge) ==
    /\ edge.source = RefSource(sp, r)
    /\ edge.target = RefTarget(sp, r)
    /\ edge.relation = r[1]

\* edges holds an edge for a reference exactly when the node the reference
\* names is in ns, and nothing else
EdgesExactly(sp, ns, edges) ==
    LET ids == {ns[i].id : i \in DOMAIN ns}
        kept == {r \in Refs(sp) : RefTarget(sp, r) \in ids}
    IN  /\ Len(edges) = Cardinality(kept)
        /\ \A r \in Refs(sp) :
              (RefTarget(sp, r) \in ids)
              <=> \E k \in DOMAIN edges : EdgeFor(sp, r, edges[k])
        /\ \A k \in DOMAIN edges : \E r \in kept : EdgeFor(sp, r, edges[k])

----------------------------------------------------------------------------
(* Compile passes one after another: the specs may be edited between two    *)
(* passes, each pass stamps its document with the clock's reading.          *)

\* the graph document of generate_graph with its generated_at
graph_document_at(sp, now) ==
    LET ns == build_nodes(sp)
    IN  [exists |-> TRUE, version |-> "2.0", generated_at |-> now,
         nodes |-> ns, edges |-> build_edges(sp, ns)]

\* a file opened for appending keeps what it held
write_graph_append(old, graph) ==
    IF old.exists
    THEN [graph EXCEPT !.nodes = old.nodes \o graph.nodes,
                       !.edges = old.edges \o graph.edges]
    ELSE graph

\* a document patched in place: the nodes and edges of the new document,
\* and those of the old one that the new one does not have
write_graph_merge(old, graph) ==
    IF old.exists
    THEN [graph EXCEPT
            !.nodes = @ \o SelectSeq(old.nodes,
                          LAMBDA n : \A i \in DOMAIN graph.nodes : graph.nodes[i].id # n.id),
            !.edges = @ \o SelectSeq(old.edges,
                          LAMBDA e : \A i \in DOMAIN graph.edges : graph.edges[i] # e)]
    ELSE graph

\* with open(graph_path, 'w') as f: json.dump(graph, f, indent=2)
write_graph(old, graph) == graph

\* datetime.utcnow() of this pass: not before the reading of the last one
Clock == {now \in 1..MaxClock : graphFile.exists => now >= graphFile.generated_at}

\* the newest two of the passes so far
LastTwo(seq) == IF Len(seq) <= 2 THEN seq ELSE Tail(seq)

CompilePass ==
    /\ \E now \in Clock :
          IF RaisesKeyError(specs)
          THEN /\ genResult' = [status |-> "KeyError"]
               /\ UNCHANGED <<graphFile, passes>>
          ELSE /\ graphFile' = write_graph(graphFile, graph_document_at(specs, now))
               /\ genResult' = [status |-> "returned", paths |-> <<GraphPath>>]
               /\ passes' = LastTwo(Append(passes, [specs |-> specs, graph |-> graphFile']))
    /\ UNCHANGED <<specs, entitiesFile, nodes, call, builderVars, run>>

\* all of seq but its last element
Front(seq) == SubSeq(seq, 1, Len(seq) - 1)

\* the specs are edited between one pass and the next: the last record of
\* one collection is taken out.  Edits before the first pass lead to specs
\* that are initial specs themselves, and the passes kept are the last two,
\* so the edits between the first pass and the second are the ones modelled.
EditSpecs ==
    /\ Len(passes) = 1
    /\ \E kind \in {"entities", "algorithms", "workflows"} :
          /\ specs[kind] # << >>
          /\ specs' = [specs EXCEPT ![kind] = Front(specs[kind])]
    /\ UNCHANGED <<graphFile, genResult, passes, entitiesFile, nodes, call,
                   builderVars, run>>

NextPasses == CompilePass \/ EditSpecs

SpecPasses == InitGen /\ [][NextPasses]_vars

(* C12: compiling the same spec collections twice yields documents whose    *)
(* nodes sequences are equal and whose edges sequences are equal; only      *)
(* generated_at may differ.                                                 *)
C12_CompileIdempotent ==
    (Len(passes) = 2 /\ passes[1].specs = passes[2].specs)
    => /\ passes[1].graph.nodes = passes[2].graph.nodes
       /\ passes[1].graph.edges = passes[2].graph.edges
       /\ passes[1].graph.version = passes[2].graph.version

\* two passes over the same specs, with nodes and an edge, at two readings
\* of the clock
C12_Witness ==
    /\ Len(passes) = 2
    /\ passes[1].specs = passes[2].specs
    /\ passes[2].graph.edges # << >>
    /\ passes[1].graph.generated_at # passes[2].graph.generated_at

----------------------------------------------------------------------------
(* services/graph_builder.py: the query service over the persisted graph    *)

\* strings the service searches in are sequences of characters
Letter == <<"a", "b", "c", "d", "e", "f", "g", "h">>

Capital == <<"A", "B", "C", "D", "E", "F", "G", "H">>

\* the id of the i-th node: "a", "ab", "c", "cd", ...
NodeId(i) == IF i % 2 = 1 THEN <<Letter[i]>> ELSE <<Letter[i - 1], Letter[i]>>

GraphIds == {NodeId(i) : i \in Ids}

NodeRecord(i) ==
    [id |-> NodeId(i),
     type |-> IF i % 2 = 1 THEN "ENTITY" ELSE "WORKFLOW",
     label |-> <<Capital[i]>>]

EdgeRecord(s, t) ==
    [source |-> NodeId(s), target |-> NodeId(t),
     relation |-> IF s % 2 = 1 THEN "DEPENDS_ON" ELSE "PRODUCES"]

\* a persisted graph document
Document(ns, es) == [exists |-> TRUE, version |-> "2.0", nodes |-> ns, edges |-> es]

\* str.lower(), character by character
LowerChar(c) ==
    IF \E i \in DOMAIN Capital : Capital[i] = c
    THEN Letter[CHOOSE i \in DOMAIN Capital : Capital[i] = c]
    ELSE c

lower(s) == [i \in DOMAIN s |-> LowerChar(s[i])]

\* q in s, for strings
Contains(s, q) ==
    \E i \in 1..(Len(s) - Len(q) + 1) : SubSeq(s, i, i + Len(q) - 1) = q

\* the default graph of load
EmptyGraphWithNode == [version |-> "2.0", nodes |-> <<NodeRecord(1)>>, edges |-> << >>]

\* {'version': '2.0', 'nodes': [], 'edges': []}
EmptyGraph == [version |-> "2.0", nodes |-> << >>, edges |-> << >>]

\* json.load(f)
Parse(doc) == [version |-> doc.version, nodes |-> doc.nodes, edges |-> doc.edges]

\* load without the test of self._graph
LoadedAlways ==
    IF diskGraph.exists THEN Parse(diskGraph) ELSE EmptyGraph

\* what load() returns
Loaded ==
    IF cache.loaded THEN cache.graph
    ELSE IF diskGraph.exists THEN Parse(diskGraph) ELSE EmptyGraph

\* what load() does to the service: self._graph is assigned when it was
\* None, the file is opened when it exists; source remembers what the file
\* was at that moment
Load ==
    /\ cache' = [loaded |-> TRUE, graph |-> Loaded,
                 source |-> IF cache.loaded THEN cache.source ELSE diskGraph]
    /\ reads' = IF ~cache.loaded /\ diskGraph.exists THEN reads + 1 ELSE reads

\* the first node of the list, whatever its id
get_node_any(ns, node_id) == IF ns = << >> THEN None ELSE Head(ns)

RECURSIVE get_node(_, _)
get_node(ns, node_id) ==
    IF ns = << >> THEN None
    ELSE IF Head(ns).id = node_id THEN Head(ns)
    ELSE get_node(Tail(ns), node_id)

get_nodes_by_type(graph, node_type) ==
    SelectSeq(graph.nodes, LAMBDA n : n.type = node_type)

get_edges_for_node(graph, node_id) ==
    [incoming |-> SelectSeq(graph.edges, LAMBDA e : e.target = node_id),
     outgoing |-> SelectSeq(graph.edges, LAMBDA e : e.source = node_id)]

\* the end of an edge the traversal leaves from, and the end it arrives at
Near(edge, direction) == IF direction = "upstream" THEN edge.target ELSE edge.source

Far(edge, direction) == IF direction = "upstream" THEN edge.source ELSE edge.target

RECURSIVE traverse(_, _, _, _, _, _)
\* traverse(current_id), from edge number i on; the pair <<visited, result>>
traverse(edges, direction, current_id, i, visited, result) ==
    IF i = 0
    THEN IF current_id \in visited THEN <<visited, result>>
         ELSE traverse(edges, direction, current_id, 1,
                       visited \cup {current_id}, result)
    ELSE IF i > Len(edges) THEN <<visited, result>>
    ELSE IF direction \in {"upstream", "downstream"}
            /\ Near(edges[i], direction) = current_id
         THEN LET next == Far(edges[i], direction)
                  inner == traverse(edges, direction, next, 0, visited,
                                    Append(result, next))
              IN  traverse(edges, direction, current_id, i + 1, inner[1], inner[2])
         ELSE traverse(edges, direction, current_id, i + 1, visited, result)

\* the lineage of the edges next to node_id only
get_lineage_direct(graph, node_id, direction) ==
    LET near == SelectSeq(graph.edges, LAMBDA e : Near(e, direction) = node_id)
    IN  [i \in DOMAIN near |-> Far(near[i], direction)]

get_lineage(graph, node_id, direction) ==
    traverse(graph.edges, direction, node_id, 0, {}, << >>)[2]

search_nodes(graph, query) ==
    LET query_lower == lower(query)
    IN  SelectSeq(graph.nodes,
                  LAMBDA n : \/ Contains(lower(n.id), query_lower)
                             \/ Contains(lower(n.label), query_lower))

\* how many elements of seq have the key k under by
CountBy(seq, k, by) ==
    Cardinality({i \in DOMAIN seq : seq[i][by] = k})

get_stats(graph) ==
    [total_nodes |-> Len(graph.nodes),
     total_edges |-> Len(graph.edges),
     nodes_by_type |->
        [t \in {graph.nodes[i].type : i \in DOMAIN graph.nodes}
            |-> CountBy(graph.nodes, t, "type")],
     edges_by_relation |->
        [r \in {graph.edges[i].relation : i \in DOMAIN graph.edges}
            |-> CountBy(graph.edges, r, "relation")]]

----------------------------------------------------------------------------
(* The query service as a state machine: one GraphBuilder, its callers one  *)
(* after another, and the file at graph_path created, replaced and deleted  *)
(* between their calls.                                                     *)

\* the node lists of the documents: the nodes of any set of ids, in order
NodeLists == {Keep([i \in Ids |-> NodeRecord(i)], S) : S \in SUBSET Ids}

\* their edge lists: none, or one edge between any two ids
EdgeLists == {<< >>} \cup {<<EdgeRecord(s, t)>> : s \in Ids, t \in Ids}

\* the documents a later compile pass leaves at graph_path
LaterDocuments ==
    {Document(<<NodeRecord(1)>>, << >>),
     Document(<<NodeRecord(1), NodeRecord(2)>>, <<EdgeRecord(2, 1)>>)}

NodeTypes == {"ENTITY", "WORKFLOW", "SKILL"}

Directions == {"upstream", "downstream"}

\* search strings: the empty one, the ids, and strings in capitals
SearchStrings == {<< >>, <<"B">>, <<"A", "b">>} \cup GraphIds

\* nothing but the query service is in use
OthersQuiet ==
    /\ entitiesFile = NoFile
    /\ nodes = EmptyNodes
    /\ call = NoCall
    /\ specs = NoSpecs
    /\ graphFile = NoDocument
    /\ genResult = [status |-> "none"]
    /\ passes = << >>
    /\ threads = << >>
    /\ run = NoRun

\* GraphBuilder(graph_path), with or without a file at graph_path
InitBuilder ==
    /\ \/ diskGraph = NoDocument
       \/ \E ns \in NodeLists, es \in EdgeLists : diskGraph = Document(ns, es)
    /\ cache = None
    /\ reads = 0
    /\ gcall = NoCall
    /\ OthersQuiet

othersVars == <<entitiesFile, nodes, call, specs, graphFile, genResult, passes, run>>

GetGraph ==
    /\ gcall = NoCall
    /\ Load
    /\ gcall' = [op |-> "get_graph", result |-> Loaded]
    /\ UNCHANGED <<diskGraph, threads, othersVars>>

GetNode ==
    /\ gcall = NoCall
    /\ Load
    /\ \E id \in GraphIds :
          gcall' = [op |-> "get_node", node_id |-> id,
                    result |-> get_node(Loaded.nodes, id)]
    /\ UNCHANGED <<diskGraph, threads, othersVars>>

GetNodesByType ==
    /\ gcall = NoCall
    /\ Load
    /\ \E type \in NodeTypes :
          gcall' = [op |-> "get_nodes_by_type", node_type |-> type,
                    result |-> get_nodes_by_type(Loaded, type)]
    /\ UNCHANGED <<diskGraph, threads, othersVars>>

GetEdgesForNode ==
    /\ gcall = NoCall
    /\ Load
    /\ \E id \in GraphIds :
          gcall' = [op |-> "get_edges_for_node", node_id |-> id,
                    result |-> get_edges_for_node(Loaded, id)]
    /\ UNCHANGED <<diskGraph, threads, othersVars>>

GetLineage ==
    /\ gcall = NoCall
    /\ Load
    /\ \E id \in GraphIds, direction \in Directions :
          gcall' = [op |-> "get_lineage", node_id |-> id, direction |-> direction,
                    result |-> get_lineage(Loaded, id, direction)]
    /\ UNCHANGED <<diskGraph, threads, othersVars>>

SearchNodes ==
    /\ gcall = NoCall
    /\ Load
    /\ \E query \in SearchStrings :
          gcall' = [op |-> "search_nodes", query |-> query,
                    result |-> search_nodes(Loaded, query)]
    /\ UNCHANGED <<diskGraph, threads, othersVars>>

GetStats ==
    /\ gcall = NoCall
    /\ Load
    /\ gcall' = [op |-> "get_stats", result |-> get_stats(Loaded)]
    /\ UNCHANGED <<diskGraph, threads, othersVars>>

\* the caller has its answer
ReturnQuery ==
    /\ gcall # NoCall
    /\ gcall' = NoCall
    /\ UNCHANGED <<diskGraph, cache, reads, threads, othersVars>>

\* between two calls the file at graph_path is deleted
DeleteFile ==
    /\ gcall = NoCall
    /\ diskGraph.exists
    /\ diskGraph' = NoDocument
    /\ UNCHANGED <<cache, reads, gcall, threads, othersVars>>

\* between two calls a compile pass creates or replaces the file
ReplaceFile ==
    /\ gcall = NoCall
    /\ \E doc \in LaterDocuments :
          /\ doc # diskGraph
          /\ diskGraph' = doc
    /\ UNCHANGED <<cache, reads, gcall, threads, othersVars>>

Queries ==
    \/ GetGraph \/ GetNode \/ GetNodesByType \/ GetEdgesForNode
    \/ GetLineage \/ SearchNodes \/ GetStats

NextBuilder == Queries \/ ReturnQuery \/ DeleteFile \/ ReplaceFile

SpecBuilder == InitBuilder /\ [][NextBuilder]_vars

\* the answer to query c on graph
Answer(graph, c) ==
    CASE c.op = "get_graph"          -> graph
      [] c.op = "get_node"           -> get_node(graph.nodes, c.node_id)
      [] c.op = "get_nodes_by_type"  -> get_nodes_by_type(graph, c.node_type)
      [] c.op = "get_edges_for_node" -> get_edges_for_node(graph, c.node_id)
      [] c.op = "get_lineage"        -> get_lineage(graph, c.node_id, c.direction)
      [] c.op = "search_nodes"       -> search_nodes(graph, c.query)
      [] c.op = "get_stats"          -> get_stats(graph)

(* C13: after the first query on a GraphBuilder every later query is        *)
(* answered from the same snapshot: the file is read and parsed at most     *)
(* once, the snapshot once loaded never changes, and every answer is the    *)
(* answer on the snapshot taken from the file as it was at the first query, *)
(* whatever was created, replaced or deleted at graph_path since.           *)
C13_OneSnapshot ==
    /\ [](/\ reads <= 1
          /\ gcall # NoCall
             => /\ cache.loaded
                /\ cache.graph = (IF cache.source.exists
                                  THEN Parse(cache.source) ELSE EmptyGraph)
                /\ gcall.result = Answer(cache.graph, gcall))
    /\ [][cache.loaded => cache' = cache]_vars

\* a query answered from the snapshot after the file was replaced by a
\* document on which the answer would be another one
C13_Witness ==
    /\ gcall # NoCall
    /\ cache.loaded
    /\ cache.source.exists
    /\ diskGraph.exists
    /\ diskGraph # cache.source
    /\ gcall.result # Answer(Parse(diskGraph), gcall)
    /\ reads = 1

(* C14: when no file exists at graph_path at the first query, the service   *)
(* serves the empty graph (version "2.0", no nodes, no edges): get_graph    *)
(* returns it, get_node returns None, get_nodes_by_type, get_lineage and    *)
(* search_nodes return empty lists, get_edges_for_node returns no incoming  *)
(* and no outgoing edge, get_stats reports zero totals, and every query     *)
(* returns.                                                                 *)
C14_MissingIsEmpty ==
    (cache.loaded /\ ~cache.source.exists)
    => /\ cache.graph = [version |-> "2.0", nodes |-> << >>, edges |-> << >>]
       /\ gcall # NoCall
          => /\ "result" \in DOMAIN gcall
             /\ CASE gcall.op = "get_graph" ->
                        gcall.result = [version |-> "2.0", nodes |-> << >>,
                                        edges |-> << >>]
                  [] gcall.op = "get_node" -> gcall.result = None
                  [] gcall.op \in {"get_nodes_by_type", "get_lineage", "search_nodes"} ->
                        gcall.result = << >>
                  [] gcall.op = "get_edges_for_node" ->
                        gcall.result = [incoming |-> << >>, outgoing |-> << >>]
                  [] gcall.op = "get_stats" ->
                        /\ gcall.result.total_nodes = 0
                        /\ gcall.result.total_edges = 0
                        /\ DOMAIN gcall.result.nodes_by_type = {}
                        /\ DOMAIN gcall.result.edges_by_relation = {}

\* the first query found no file; a file holding the node asked for was
\* created afterwards, and get_node still answers None
C14_Witness ==
    /\ cache.loaded
    /\ ~cache.source.exists
    /\ gcall.op = "get_node"
    /\ diskGraph.exists
    /\ get_node(diskGraph.nodes, gcall.node_id) # None
    /\ gcall.result = None

----------------------------------------------------------------------------
(* Lineage over persisted graphs of any shape: edge lists with cycles,      *)
(* self-loops, diamonds and repeated edges.                                 *)

AllNodes == [i \in Ids |-> NodeRecord(i)]

InitLineage ==
    /\ \E k \in 0..MaxEdges : \E ends \in [1..k -> Ids \X Ids] :
          diskGraph = Document(AllNodes,
                               [i \in 1..k |-> EdgeRecord(ends[i][1], ends[i][2])])
    /\ cache = None
    /\ reads = 0
    /\ gcall = NoCall
    /\ OthersQuiet

NextLineage == GetLineage \/ ReturnQuery

SpecLineage == InitLineage /\ [][NextLineage]_vars

\* the edges of a graph as pairs <<source, target>>
EdgePairs(graph) ==
    {<<graph.edges[i].source, graph.edges[i].target>> : i \in DOMAIN graph.edges}

\* the nodes from which id is reachable along one or more edges
Upstream(graph, id) ==
    {p[1] : p \in {q \in TransitiveClosure(EdgePairs(graph)) : q[2] = id}}

\* the nodes reachable from id along one or more edges
Downstream(graph, id) == Reachable(EdgePairs(graph), id)

LineageCall == gcall.op = "get_lineage"

(* C15: the set of ids in get_lineage(id, 'upstream') is the set of nodes   *)
(* from which id is reachable along one or more edges, the set of ids in    *)
(* get_lineage(id, 'downstream') is the set of nodes reachable from id      *)
(* along one or more edges, and an id that occurs in no edge gives the      *)
(* empty list.                                                              *)
C15_LineageIsReachability ==
    LineageCall
    => /\ gcall.direction = "upstream"
          => Range(gcall.result) = Upstream(cache.graph, gcall.node_id)
       /\ gcall.direction = "downstream"
          => Range(gcall.result) = Downstream(cache.graph, gcall.node_id)
       /\ (\A p \in EdgePairs(cache.graph) :
              p[1] # gcall.node_id /\ p[2] # gcall.node_id)
          => gcall.result = << >>

\* an upstream lineage that holds a node two edges away, in a graph with a
\* cycle
C15_Witness ==
    /\ LineageCall
    /\ gcall.direction = "upstream"
    /\ ~Acyclic(EdgePairs(cache.graph))
    /\ \E n \in Range(gcall.result) :
          /\ <<n, gcall.node_id>> \notin EdgePairs(cache.graph)
          /\ n # gcall.node_id

(* C16: get_lineage returns every reached id exactly once, also on          *)
(* diamond-shaped and cyclic graphs.  Stated here for graphs whose edges    *)
(* are pairwise different, so that an id is not reached twice by one edge   *)
(* listed twice.                                                            *)
C16_EachIdOnce ==
    (LineageCall /\ Distinct(cache.graph.edges))
    => Distinct(gcall.result)

----------------------------------------------------------------------------
(* Several callers of one GraphBuilder, load() statement by statement.      *)
(*                                                                          *)
(* The callers are the handlers of app/api/graph/route.py, which are        *)
(* `async def` functions without an await, and the methods of MCPServer,    *)
(* which are synchronous: requests may be in flight together, but a handler *)
(* that has started runs to its return before another one starts.  load()   *)
(* itself takes no lock.  A compile pass is another process and replaces    *)
(* the file at any moment, also between two statements of a handler.        *)

Callers == 1..NumCallers

\* a caller whose handler is between its first statement and its return
Running(c) == threads[c].pc \in {"test", "exists", "open", "else", "return"}

\* threads that preempt each other: a handler starts whenever it likes
CanStartPreemptive(c) == TRUE

\* the event loop starts a handler when no other handler is running
CanStart(c) == \A d \in Callers \ {c} : ~Running(d)

InitCallers ==
    /\ \/ diskGraph = NoDocument
       \/ \E ns \in NodeLists, es \in EdgeLists : diskGraph = Document(ns, es)
    /\ cache = None
    /\ reads = 0
    /\ gcall = NoCall
    /\ threads = [c \in Callers |->
                    [pc |-> "idle", early |-> FALSE, file |-> NoDocument, got |-> None]]
    /\ entitiesFile = NoFile
    /\ nodes = EmptyNodes
    /\ call = NoCall
    /\ specs = NoSpecs
    /\ graphFile = NoDocument
    /\ genResult = [status |-> "none"]
    /\ passes = << >>
    /\ run = NoRun

\* a request arrives; early remembers that it arrived before any handler
\* had started on the service
Arrive(c) ==
    /\ threads[c].pc = "idle"
    /\ threads' = [threads EXCEPT ![c].pc = "pending",
                                  ![c].early = \A d \in Callers :
                                                  threads[d].pc \in {"idle", "pending"}]
    /\ UNCHANGED <<diskGraph, cache, reads, gcall, othersVars>>

\* builder = get_graph_builder(); builder.get_graph(): the handler starts;
\* file remembers what was at graph_path at that moment
Start(c) ==
    /\ threads[c].pc = "pending"
    /\ CanStart(c)
    /\ threads' = [threads EXCEPT ![c].pc = "test", ![c].file = diskGraph]
    /\ UNCHANGED <<diskGraph, cache, reads, gcall, othersVars>>

\* if self._graph is None:
TestCache(c) ==
    /\ threads[c].pc = "test"
    /\ threads' = [threads EXCEPT ![c].pc = IF cache.loaded THEN "return" ELSE "exists"]
    /\ UNCHANGED <<diskGraph, cache, reads, gcall, othersVars>>

\* if self.graph_path.exists():
TestExists(c) ==
    /\ threads[c].pc = "exists"
    /\ threads' = [threads EXCEPT ![c].pc = IF diskGraph.exists THEN "open" ELSE "else"]
    /\ UNCHANGED <<diskGraph, cache, reads, gcall, othersVars>>

\* with open(self.graph_path) as f: self._graph = json.load(f)
\* (nothing deletes the file here, so the file tested is there to be opened)
OpenAndParse(c) ==
    /\ threads[c].pc = "open"
    /\ cache' = [loaded |-> TRUE, graph |-> Parse(diskGraph), source |-> diskGraph]
    /\ reads' = reads + 1
    /\ threads' = [threads EXCEPT ![c].pc = "return"]
    /\ UNCHANGED <<diskGraph, gcall, othersVars>>

\* else: self._graph = {'version': '2.0', 'nodes': [], 'edges': []}
AssignDefault(c) ==
    /\ threads[c].pc = "else"
    /\ cache' = [loaded |-> TRUE, graph |-> EmptyGraph, source |-> NoDocument]
    /\ threads' = [threads EXCEPT ![c].pc = "return"]
    /\ UNCHANGED <<diskGraph, reads, gcall, othersVars>>

\* return self._graph
ReturnGraph(c) ==
    /\ threads[c].pc = "return"
    /\ threads' = [threads EXCEPT ![c].pc = "done", ![c].got = cache.graph]
    /\ UNCHANGED <<diskGraph, cache, reads, gcall, othersVars>>

\* a compile pass replaces or creates the file, at any moment
ReplaceAnytime ==
    /\ \E doc \in LaterDocuments :
          /\ doc # diskGraph
          /\ diskGraph' = doc
    /\ UNCHANGED <<cache, reads, gcall, threads, othersVars>>

NextCallers ==
    \/ \E c \in Callers :
          \/ Arrive(c) \/ Start(c) \/ TestCache(c) \/ TestExists(c)
          \/ OpenAndParse(c) \/ AssignDefault(c) \/ ReturnGraph(c)
    \/ ReplaceAnytime

SpecCallers == InitCallers /\ [][NextCallers]_vars

----------------------------------------------------------------------------
(* The traversals loop round by loop round: the while-loop of               *)
(* get_dependencies and get_dependents, the while-loop of get_change_order  *)
(* and the recursion of get_lineage, on an index or a persisted graph of    *)
(* any shape.                                                               *)

InitRuns == Init \/ InitLineage

Top(stack) == stack[Len(stack)]

\* a pop that leaves the list as it is
PopNothing(stack) == stack

\* list.pop(): the list without its last element
Pop(stack) == SubSeq(stack, 1, Len(stack) - 1)

\* self.nodes[current].dependencies or .dependents, by the query
Neighbours(ns, current, op) ==
    IF current \notin DOMAIN ns THEN {}
    ELSE IF op = "get_dependencies" THEN ns[current].dependencies
    ELSE ns[current].dependents

\* get_dependencies(entity_id) / get_dependents(entity_id) up to the loop
VisitStart ==
    /\ run = NoRun
    /\ \E id \in Ids, op \in {"get_dependencies", "get_dependents"} :
          run' = IF id \notin DOMAIN nodes
                 THEN [op |-> op, entity_id |-> id, done |-> TRUE, result |-> {}]
                 ELSE [op |-> op, entity_id |-> id, done |-> FALSE,
                       visited |-> {}, to_visit |-> <<id>>]
    /\ UNCHANGED <<entitiesFile, nodes, call, specs, graphFile, genResult,
                   passes, builderVars>>

\* one test of `while to_visit` and one round of the loop, or the return
VisitRound ==
    /\ run.op \in {"get_dependencies", "get_dependents"}
    /\ ~run.done
    /\ run' = IF run.to_visit = << >>
              THEN [op |-> run.op, entity_id |-> run.entity_id, done |-> TRUE,
                    result |-> run.visited \ {run.entity_id}]
              ELSE LET current == Top(run.to_visit)
                       rest == Pop(run.to_visit)
                       v2 == run.visited \cup {current}
                   IN  IF current \in run.visited
                       THEN [run EXCEPT !.to_visit = rest]
                       ELSE [run EXCEPT
                               !.visited = v2,
                               !.to_visit = rest \o SeqOfSet(
                                   {d \in Neighbours(nodes, current, run.op) :
                                       d \notin v2})]
    /\ UNCHANGED <<entitiesFile, nodes, call, specs, graphFile, genResult,
                   passes, builderVars>>

\* get_change_order(entities) up to the while-loop: the two dicts, the
\* for-loops over the list and over the dependencies sets, the first queue
OrderStart ==
    /\ run = NoRun
    /\ \E ids \in SeqsUpTo(Ids, MaxLen) :
          LET st == BuildInDegree(nodes, ids, ids, InitialDegrees(ids))
          IN  run' = [op |-> "get_change_order", entities |-> ids, done |-> FALSE,
                      in_degree |-> st.in_degree, graph |-> st.graph,
                      queue |-> SelectSeq(ids, LAMBDA e : st.in_degree[e] = 0),
                      result |-> << >>]
    /\ UNCHANGED <<entitiesFile, nodes, call, specs, graphFile, genResult,
                   passes, builderVars>>

\* one test of `while queue` and one round of the loop, or the cycle check
\* and the return
OrderRound ==
    /\ run.op = "get_change_order"
    /\ ~run.done
    /\ run' = IF run.queue = << >>
              THEN [op |-> run.op, entities |-> run.entities, done |-> TRUE,
                    result |-> IF Len(run.result) # Len(run.entities)
                               THEN run.entities ELSE run.result]
              ELSE LET current == Head(run.queue)
                       r == Release(run.graph[current], run.in_degree, Tail(run.queue))
                   IN  [run EXCEPT !.in_degree = r.in_degree,
                                   !.queue = r.queue,
                                   !.result = Append(@, current)]
    /\ UNCHANGED <<entitiesFile, nodes, call, specs, graphFile, genResult,
                   passes, builderVars>>

\* get_lineage(node_id, direction) up to the call traverse(node_id); a frame
\* of the call stack is the current_id and the number of the edge the
\* for-loop is at, 0 before the test of visited
LineageStart ==
    /\ run = NoRun
    /\ Load
    /\ \E id \in GraphIds, direction \in Directions :
          run' = [op |-> "get_lineage", node_id |-> id, direction |-> direction,
                  done |-> FALSE, visited |-> {}, result |-> << >>,
                  stack |-> <<[current_id |-> id, i |-> 0]>>]
    /\ UNCHANGED <<entitiesFile, nodes, call, specs, graphFile, genResult,
                   passes, diskGraph, gcall, threads>>

\* one statement of traverse in the innermost call, or the return of
\* get_lineage
LineageStep ==
    /\ run.op = "get_lineage"
    /\ ~run.done
    /\ run' = IF run.stack = << >>
              THEN [op |-> run.op, node_id |-> run.node_id,
                    direction |-> run.direction, done |-> TRUE,
                    result |-> run.result]
              ELSE LET frame == Top(run.stack)
                       below == Front(run.stack)
                       edges == cache.graph.edges
                       on == Append(below, [frame EXCEPT !.i = @ + 1])
                   IN  IF frame.i = 0
                       THEN IF frame.current_id \in run.visited
                            THEN [run EXCEPT !.stack = below]
                            ELSE [run EXCEPT !.visited = @ \cup {frame.current_id},
                                             !.stack = on]
                       ELSE IF frame.i > Len(edges)
                       THEN [run EXCEPT !.stack = below]
                       ELSE IF Near(edges[frame.i], run.direction) = frame.current_id
                       THEN LET next == Far(edges[frame.i], run.direction)
                            IN  [run EXCEPT
                                    !.result = Append(@, next),
                                    !.stack = Append(on, [current_id |-> next, i |-> 0])]
                       ELSE [run EXCEPT !.stack = on]
    /\ UNCHANGED <<entitiesFile, nodes, call, specs, graphFile, genResult,
                   passes, builderVars>>

\* the caller has the result
ReturnRun ==
    /\ run # NoRun
    /\ run.done
    /\ run' = NoRun
    /\ UNCHANGED <<entitiesFile, nodes, call, specs, graphFile, genResult,
                   passes, builderVars>>

NextRuns ==
    \/ VisitStart \/ VisitRound
    \/ OrderStart \/ OrderRound
    \/ LineageStart \/ LineageStep
    \/ ReturnRun

SpecRuns == InitRuns /\ [][NextRuns]_vars

\* a traversal that has started goes on executing
SpecRunsFair ==
    /\ SpecRuns
    /\ WF_vars(VisitRound)
    /\ WF_vars(OrderRound)
    /\ WF_vars(LineageStep)

(* C18: get_dependencies, get_dependents, get_change_order and get_lineage  *)
(* terminate on every finite graph, cycles and self-loops included, for     *)
(* every argument: a traversal that is under way eventually returns.        *)
C18_TraversalsTerminate == (~run.done) ~> run.done

\* a traversal has returned from a graph with a cycle: get_lineage with a
\* lineage that holds its own start node, or get_dependencies /
\* get_dependents / get_change_order on an index with a cycle
C18_Witness ==
    /\ run # NoRun
    /\ run.done
    /\ \/ /\ run.op = "get_lineage"
          /\ run.node_id \in Range(run.result)
       \/ /\ run.op \in {"get_dependencies", "get_dependents"}
          /\ ~Acyclic(DependsOn(nodes))
          /\ run.result # {}
       \/ /\ run.op = "get_change_order"
          /\ ~Acyclic(Induced(nodes, run.entities))

\* the rounds compute what the queries return
RunsAgree ==
    (run # NoRun /\ run.done)
    => run.result =
          CASE run.op = "get_dependencies" -> get_dependencies(nodes, run.entity_id)
            [] run.op = "get_dependents" -> get_dependents(nodes, run.entity_id)
            [] run.op = "get_change_order" -> get_change_order(nodes, run.entities)
            [] run.op = "get_lineage" ->
                  get_lineage(cache.graph, run.node_id, run.direction)

----------------------------------------------------------------------------
(* DependencyGraph.analyze_change_risk *)

\* the thresholds of the risk levels
LowImpact == 1

MediumImpact == 3

RiskIds == 1..NumRiskIds

\* the levels with the comparison `<` in place of `<=`
analyze_change_risk_strict(ns, entity_id) ==
    IF entity_id \notin DOMAIN ns THEN "unknown"
    ELSE LET impact_size == Cardinality(get_impact(ns, entity_id))
         IN  IF impact_size = LowImpact THEN "low"
             ELSE IF impact_size < MediumImpact THEN "medium"
             ELSE "high"

analyze_change_risk(ns, entity_id) ==
    IF entity_id \notin DOMAIN ns THEN "unknown"
    ELSE LET impact_size == Cardinality(get_impact(ns, entity_id))
         IN  IF impact_size = LowImpact THEN "low"
             ELSE IF impact_size <= MediumImpact THEN "medium"
             ELSE "high"

AnalyzeChangeRisk ==
    /\ Idle
    /\ \E id \in RiskIds :
          call' = [op |-> "analyze_change_risk", entity_id |-> id,
                   result |-> analyze_change_risk(nodes, id)]
    /\ UNCHANGED <<entitiesFile, nodes, specs, graphFile, genResult, passes,
                   builderVars, run>>

----------------------------------------------------------------------------
(* Both services asked about ids they do not know.  The index and the       *)
(* query service share no state: a state has either an index built from a   *)
(* file or a file at graph_path.                                            *)

InitUnknown == Init \/ InitBuilder

\* no file at graph_path and nothing loaded
BuilderUnused == diskGraph = NoDocument /\ cache = None

\* an index built from no file
IndexUnused == entitiesFile = NoFile

NextUnknown ==
    \/ /\ BuilderUnused
       /\ \/ GetDependencies \/ GetDependents \/ GetImpact \/ CanParallelize
          \/ FindConflicts \/ GetChangeOrder \/ AnalyzeChangeRisk \/ Return
    \/ /\ IndexUnused
       /\ call = NoCall
       /\ \/ Queries \/ ReturnQuery \/ DeleteFile \/ ReplaceFile

SpecUnknown == InitUnknown /\ [][NextUnknown]_vars

\* entity_id not in self.nodes
UnknownEntity(id) == id \notin DOMAIN nodes

\* what the index answers about ids it does not know: no dependencies, no
\* dependents, an impact of the id alone, parallel to every other id, in
\* conflict with itself only, no place of its own in a change order, a risk
\* that is "unknown"
IndexDegrades ==
    /\ (call.op \in {"get_dependencies", "get_dependents"} /\ UnknownEntity(call.entity_id))
       => call.result = {}
    /\ (call.op = "get_impact" /\ UnknownEntity(call.entity_id))
       => call.result = {call.entity_id}
    /\ (call.op = "can_parallelize"
        /\ (UnknownEntity(call.change_a) \/ UnknownEntity(call.change_b)))
       => call.result = (call.change_a # call.change_b)
    /\ (call.op = "find_conflicts" /\ UnknownEntity(call.entity_id))
       => call.result = SelectSeq(call.in_flight_entities,
                                  LAMBDA f : f = call.entity_id)
    /\ call.op = "find_conflicts"
       => \A i \in DOMAIN call.result :
             UnknownEntity(call.result[i]) => call.result[i] = call.entity_id
    /\ (call.op = "get_change_order"
        /\ \A i \in DOMAIN call.entities : UnknownEntity(call.entities[i]))
       => call.result = call.entities
    /\ call.op = "get_change_order" => IsPermutation(call.result, call.entities)
    /\ (call.op = "analyze_change_risk" /\ UnknownEntity(call.entity_id))
       => call.result = "unknown"
    /\ call.op # "none" => "result" \in DOMAIN call

\* an id that is the id of no node of the loaded graph and an end of none
\* of its edges
UnknownNode(id) ==
    /\ \A i \in DOMAIN cache.graph.nodes : cache.graph.nodes[i].id # id
    /\ \A i \in DOMAIN cache.graph.edges :
          cache.graph.edges[i].source # id /\ cache.graph.edges[i].target # id

\* what the query service answers about ids and types it does not know,
\* search_nodes left aside
BuilderDegrades ==
    /\ (gcall.op = "get_node" /\ UnknownNode(gcall.node_id)) => gcall.result = None
    /\ (gcall.op = "get_edges_for_node" /\ UnknownNode(gcall.node_id))
       => gcall.result = [incoming |-> << >>, outgoing |-> << >>]
    /\ (gcall.op = "get_lineage" /\ UnknownNode(gcall.node_id)) => gcall.result = << >>
    /\ (gcall.op = "get_nodes_by_type"
        /\ \A i \in DOMAIN cache.graph.nodes :
              cache.graph.nodes[i].type # gcall.node_type)
       => gcall.result = << >>
    /\ gcall.op # "none" => "result" \in DOMAIN gcall

\* a search for a string that is an id unknown to the graph
UnknownSearch ==
    /\ gcall.op = "search_nodes"
    /\ gcall.query \in GraphIds
    /\ UnknownNode(gcall.query)

(* C19 as stated: no query of the index or of the query service raises on   *)
(* an id that is not in the index or graph, and each returns its empty or   *)
(* absent result: search_nodes too returns the empty list.                  *)
C19_UnknownIdEmpty ==
    /\ IndexDegrades
    /\ BuilderDegrades
    /\ UnknownSearch => gcall.result = << >>

(* C19, amended: as above, but search_nodes given an unknown id returns the *)
(* nodes whose id or label contains it, case ignored: the empty list only   *)
(* when no node does.                                                       *)
C19_UnknownIdDegrades ==
    /\ IndexDegrades
    /\ BuilderDegrades
    /\ UnknownSearch
       => /\ \A i \in DOMAIN gcall.result :
                /\ gcall.result[i].id # gcall.query
                /\ \/ Contains(lower(gcall.result[i].id), lower(gcall.query))
                   \/ Contains(lower(gcall.result[i].label), lower(gcall.query))
          /\ (\A i \in DOMAIN cache.graph.nodes :
                 /\ ~Contains(lower(cache.graph.nodes[i].id), lower(gcall.query))
                 /\ ~Contains(lower(cache.graph.nodes[i].label), lower(gcall.query)))
             => gcall.result = << >>

\* a search for an unknown id has returned a node
C19_Witness ==
    /\ UnknownSearch
    /\ gcall.result # << >>

----------------------------------------------------------------------------
(* Risk levels on indexes large enough for every level: up to NumRiskIds    *)
(* entities with up to MaxRiskRels declared relationships.                  *)

RiskFileOf(k, rel) ==
    [exists   |-> TRUE,
     entities |-> [i \in 1..k |->
                      [id |-> i,
                       relationships |-> SeqOfSet({t \in RiskIds : <<i, t>> \in rel})]]]

InitRisk ==
    /\ \/ entitiesFile = NoFile
       \/ \E k \in 0..NumRiskIds :
             \E rel \in {r \in SUBSET ((1..k) \X RiskIds) : Cardinality(r) <= MaxRiskRels} :
                entitiesFile = RiskFileOf(k, rel)
    /\ nodes = build_from_specs(EmptyNodes, entitiesFile)
    /\ call = NoCall
    /\ specs = NoSpecs
    /\ graphFile = NoDocument
    /\ genResult = [status |-> "none"]
    /\ RestQuiet

NextRisk == AnalyzeChangeRisk \/ GetImpact \/ Return

SpecRisk == InitRisk /\ [][NextRisk]_vars

RiskCall == call.op = "analyze_change_risk"

\* the level the size of an impact set stands for
LevelOf(size) ==
    IF size = 1 THEN "low" ELSE IF size \in {2, 3} THEN "medium" ELSE "high"

(* C20 as stated: for every id, known to the index or not,                  *)
(* analyze_change_risk returns 'low' when |get_impact(id)| = 1, 'medium'    *)
(* when it is 2 or 3 and 'high' when it is more than 3.                     *)
C20_RiskByImpactAnyId ==
    RiskCall
    => call.result = LevelOf(Cardinality(get_impact(nodes, call.entity_id)))

(* C20, amended: for every id known to the index analyze_change_risk        *)
(* returns 'low' when |get_impact(id)| = 1, 'medium' when it is 2 or 3 and  *)
(* 'high' when it is more than 3; for an id not known to the index it       *)
(* returns 'unknown'.                                                       *)
C20_RiskByImpactKnownId ==
    RiskCall
    => IF call.entity_id \in DOMAIN nodes
       THEN call.result = LevelOf(Cardinality({call.entity_id}
                                               \cup Reachable(DependedBy(nodes),
                                                         call.entity_id)))
       ELSE call.result = "unknown"

\* the three levels and 'unknown' all occur: here 'high', for an entity
\* with more than three entities in its impact
C20_Witness ==
    /\ RiskCall
    /\ call.result = "high"
    /\ Cardinality(get_impact(nodes, call.entity_id)) > 3

----------------------------------------------------------------------------
(* The order of the document: nodes by collection and input position,       *)
(* edges by rule and input position.                                        *)

\* the place of a reference in the order of emission: structural references
\* by entity and field, then per workflow its produces and its consumes
RefKey(r) ==
    CASE r[1] = "DEPENDS_ON" -> <<1, r[2], 0, r[3]>>
      [] r[1] = "PRODUCES"   -> <<2, r[2], 1, r[3]>>
      [] r[1] = "CONSUMES"   -> <<2, r[2], 2, r[3]>>

\* lexicographic order of the keys
RefBefore(r, s) ==
    LET a == RefKey(r)
        b == RefKey(s)
    IN  \E k \in 1..4 : a[k] < b[k] /\ \A j \in 1..(k - 1) : a[j] = b[j]

\* the references whose entity has a node in the document
KeptRefs(sp, doc) ==
    LET ids == NodeIds(doc)
    IN  {r \in Refs(sp) : RefTarget(sp, r) \in ids}

\* the position in the edges list of the edge for the reference r of kept
RefRank(kept, r) == 1 + Cardinality({s \in kept : RefBefore(s, r)})

\* the node of the record at position i of its collection
NodeOfRecord(sp, kind, i, node) ==
    CASE kind = "entities" ->
            /\ node.type = "ASSET"
            /\ node.id = Concat("asset.entity", Lower(sp.entities[i].name))
            /\ node.label = sp.entities[i].name
      [] kind = "algorithms" ->
            /\ node.type = "ALGORITHM"
            /\ node.id = Concat("algo.compute",
                                Get(sp.algorithms[i].id, Get(sp.algorithms[i].name, "unknown")))
      [] kind = "workflows" ->
            /\ node.type = "WORKFLOW"
            /\ node.id = Concat("wf.process",
                                Get(sp.workflows[i].id, Get(sp.workflows[i].name, "unknown")))

NodesInOrder(sp, doc) ==
    LET ne == Len(sp.entities)
        na == Len(sp.algorithms)
        nw == Len(sp.workflows)
    IN  /\ Len(doc.nodes) = ne + na + nw
        /\ \A i \in 1..ne : NodeOfRecord(sp, "entities", i, doc.nodes[i])
        /\ \A i \in 1..na : NodeOfRecord(sp, "algorithms", i, doc.nodes[ne + i])
        /\ \A i \in 1..nw : NodeOfRecord(sp, "workflows", i, doc.nodes[ne + na + i])

EdgesInOrder(sp, doc) ==
    LET kept == KeptRefs(sp, doc)
    IN  /\ Len(doc.edges) = Cardinality(kept)
        /\ \A r \in kept : EdgeFor(sp, r, doc.edges[RefRank(kept, r)])

----------------------------------------------------------------------------
(* get_change_order with the iteration order of the dependencies sets made  *)
(* explicit: a Python set yields its members in an order the program does   *)
(* not control, so every order is taken.                                    *)

RECURSIVE Perms(_)
\* the sequences that list the members of S once each
Perms(S) ==
    IF S = {} THEN {<< >>}
    ELSE UNION {{<<x>> \o p : p \in Perms(S \ {x})} : x \in S}

RECURSIVE IterationOrders(_, _)
\* one order of iteration for the dependencies set of every node in D
IterationOrders(ns, D) ==
    IF D = {} THEN {<< >>}
    ELSE LET e == Min(D)
         IN  {Put(f, e, p) : f \in IterationOrders(ns, D \ {e}),
                             p \in Perms(ns[e].dependencies)}

RECURSIVE AppendEdges(_, _, _, _)
\* for dep in self.nodes[entity].dependencies: if dep in entities:
\*     graph[dep].append(entity); in_degree[entity] += 1
AppendEdges(deps, entities, entity, st) ==
    IF deps = << >> THEN st
    ELSE LET dep == Head(deps)
         IN  AppendEdges(Tail(deps), entities, entity,
                 IF dep \in Range(entities)
                 THEN [in_degree |-> [st.in_degree EXCEPT ![entity] = @ + 1],
                       graph     |-> [st.graph EXCEPT ![dep] = Append(@, entity)]]
                 ELSE st)

RECURSIVE BuildInDegreeIn(_, _, _, _, _)
\* for entity in entities: if entity in self.nodes: ...
BuildInDegreeIn(ns, entities, rest, st, order) ==
    IF rest = << >> THEN st
    ELSE LET entity == Head(rest)
         IN  BuildInDegreeIn(ns, entities, Tail(rest),
                 IF entity \in DOMAIN ns
                 THEN AppendEdges(order[entity], entities, entity, st)
                 ELSE st,
                 order)

\* get_change_order(entities) when the dependencies sets iterate as order says
get_change_order_in(ns, entities, order) ==
    LET st == BuildInDegreeIn(ns, entities, entities, InitialDegrees(entities), order)
        queue == SelectSeq(entities, LAMBDA e : st.in_degree[e] = 0)
        result == KahnLoop(st.graph, st.in_degree, queue, << >>)
    IN  IF Len(result) # Len(entities) THEN entities ELSE result

GetChangeOrderIn ==
    /\ Idle
    /\ \E ids \in SeqsUpTo(Ids, MaxLen), order \in IterationOrders(nodes, DOMAIN nodes) :
          call' = [op |-> "get_change_order", entities |-> ids, order |-> order,
                   result |-> get_change_order_in(nodes, ids, order)]
    /\ UNCHANGED <<entitiesFile, nodes, specs, graphFile, genResult, passes, builderVars, run>>

NextOrder == GetChangeOrderIn \/ Return

SpecOrder == Init /\ [][NextOrder]_vars

RECURSIVE KahnFifo(_, _, _, _)
\* Kahn's algorithm on the edges R (<<a, b>>: a depends on b) with a FIFO
\* queue: the head of the queue is emitted and its edges are removed; the
\* ids that depended on it and depend on nothing that is left join the
\* queue in input order
KahnFifo(ids, R, queue, result) ==
    IF queue = << >> THEN result
    ELSE LET u == Head(queue)
             left == {p \in R : p[2] # u}
             freed == SelectSeq(ids, LAMBDA v :
                         /\ <<v, u>> \in R
                         /\ ~\E p \in left : p[1] = v)
         IN  KahnFifo(ids, left, Tail(queue) \o freed, Append(result, u))

\* the order Kahn's algorithm gives on the induced subgraph, and the input
\* itself when a cycle keeps the algorithm from emitting every id
KahnOrder(ns, ids) ==
    LET R == Induced(ns, ids)
        first == SelectSeq(ids, LAMBDA v : ~\E p \in R : p[1] = v)
        result == KahnFifo(ids, R, first, << >>)
    IN  IF Len(result) # Len(ids) THEN ids ELSE result

(* C22: for every list of pairwise distinct ids, get_change_order returns   *)
(* the output of Kahn's algorithm on the induced subgraph run with a FIFO   *)
(* queue that starts with the zero-in-degree ids in input order and to      *)
(* which newly freed ids are appended in input order (the input itself when *)
(* a cycle is found); the result is the same for every iteration order of   *)
(* the dependencies sets, and it is the input list when no two ids of the   *)
(* list are related by a direct dependency.                                 *)
C22_KahnFifoOrder ==
    (OrderCall /\ "order" \in DOMAIN call /\ Distinct(call.entities))
    => /\ call.result = KahnOrder(nodes, call.entities)
       /\ \A o \in IterationOrders(nodes, DOMAIN nodes) :
             get_change_order_in(nodes, call.entities, o) = call.result
       /\ (\A p \in Induced(nodes, call.entities) : p[1] = p[2])
          => call.result = call.entities

\* an entity with two dependencies in the list, its dependencies set
\* iterated in decreasing order, and a result that is not the input
C22_Witness ==
    /\ OrderCall /\ "order" \in DOMAIN call
    /\ Distinct(call.entities)
    /\ call.result # call.entities
    /\ \E e \in Range(call.entities) :
          /\ e \in DOMAIN nodes
          /\ Cardinality(nodes[e].dependencies \cap Range(call.entities)) = 2
          /\ call.order[e] # SeqOfSet(nodes[e].dependencies)

----------------------------------------------------------------------------
(* The queries as programs over Python objects.  A set or a list is an      *)
(* object; add, remove, update, append and pop change the object they are   *)
(* called on, whoever else holds it.  The objects of the index are the      *)
(* dependencies and dependents sets of its nodes; a query's own objects are *)
(* the ones it creates with set(), [] or a literal.                         *)

\* the object a query creates for itself
Local == <<0, "local">>

\* visited = self.nodes[entity_id].<field>: the index's own set
visited_object_shared(entity_id, field) == <<entity_id, field>>

\* visited = set()
visited_object(entity_id, field) == Local

\* the value of the object at ref
ValueAt(store, ref) ==
    IF ref = Local THEN store.local ELSE store.index[ref[1]][ref[2]]

\* the object at ref changed to value
Write(store, ref, value) ==
    IF ref = Local THEN [store EXCEPT !.local = value]
    ELSE [store EXCEPT !.index[ref[1]][ref[2]] = value]

RECURSIVE Visit(_, _, _, _)
\* while to_visit: current = to_visit.pop(); if current in visited: continue;
\* visited.add(current); push the members of self.nodes[current].<field>
\* that are not in visited
Visit(store, visited, to_visit, field) ==
    IF to_visit = << >> THEN store
    ELSE LET current == Top(to_visit)
             rest == Pop(to_visit)
         IN  IF current \in ValueAt(store, visited)
             THEN Visit(store, visited, rest, field)
             ELSE LET s1 == Write(store, visited,
                                  ValueAt(store, visited) \cup {current})
                      push == IF current \in DOMAIN s1.index
                              THEN {d \in s1.index[current][field] :
                                       d \notin ValueAt(s1, visited)}
                              ELSE {}
                  IN  Visit(s1, visited, rest \o SeqOfSet(push), field)

\* get_dependencies (field "dependencies") and get_dependents (field
\* "dependents") on the index ns: the index afterwards, the returned set
\* and the object it is
traversal_on(ns, entity_id, field) ==
    IF entity_id \notin DOMAIN ns
    THEN [nodes |-> ns, result |-> {}, object |-> Local]
    ELSE LET visited == visited_object(entity_id, field)
             s0 == [index |-> ns, local |-> {}]
             s1 == Visit(s0, visited, <<entity_id>>, field)
             s2 == Write(s1, visited, ValueAt(s1, visited) \ {entity_id})
         IN  [nodes |-> s2.index, result |-> ValueAt(s2, visited),
              object |-> visited]

get_dependencies_on(ns, entity_id) == traversal_on(ns, entity_id, "dependencies")

get_dependents_on(ns, entity_id) == traversal_on(ns, entity_id, "dependents")

\* impact = {entity_id}; impact.update(self.get_dependents(entity_id))
get_impact_on(ns, entity_id) ==
    LET d == get_dependents_on(ns, entity_id)
    IN  [nodes |-> d.nodes, result |-> {entity_id} \cup d.result, object |-> Local]

can_parallelize_on(ns, change_a, change_b) ==
    LET a == get_impact_on(ns, change_a)
        b == get_impact_on(a.nodes, change_b)
    IN  [nodes |-> b.nodes, result |-> (a.result \cap b.result = {}),
         object |-> Local]

RECURSIVE ConflictLoopOn(_, _, _, _)
\* for in_flight in in_flight_entities: ... conflicts.append(in_flight)
ConflictLoopOn(ns, impact, in_flight_entities, conflicts) ==
    IF in_flight_entities = << >>
    THEN [nodes |-> ns, result |-> conflicts, object |-> Local]
    ELSE LET in_flight == Head(in_flight_entities)
             i == get_impact_on(ns, in_flight)
         IN  ConflictLoopOn(i.nodes, impact, Tail(in_flight_entities),
                            IF impact \cap i.result # {}
                            THEN Append(conflicts, in_flight) ELSE conflicts)

find_conflicts_on(ns, entity_id, in_flight_entities) ==
    LET i == get_impact_on(ns, entity_id)
    IN  ConflictLoopOn(i.nodes, i.result, in_flight_entities, << >>)

\* get_change_order reads self.nodes and the dependencies sets and writes to
\* the dicts and lists of lines 163-175 only; it returns result, or the
\* caller's own list on a cycle
get_change_order_on(ns, entities) ==
    [nodes |-> ns, result |-> get_change_order(ns, entities), object |-> Local]

analyze_change_risk_on(ns, entity_id) ==
    IF entity_id \notin DOMAIN ns
    THEN [nodes |-> ns, result |-> "unknown", object |-> Local]
    ELSE LET i == get_impact_on(ns, entity_id)
             impact_size == Cardinality(i.result)
         IN  [nodes |-> i.nodes,
              result |-> IF impact_size = LowImpact THEN "low"
                         ELSE IF impact_size <= MediumImpact THEN "medium"
                         ELSE "high",
              object |-> Local]

\* the query req executed on the index ns
Perform(ns, req) ==
    CASE req.op = "get_dependencies" -> get_dependencies_on(ns, req.entity_id)
      [] req.op = "get_dependents"   -> get_dependents_on(ns, req.entity_id)
      [] req.op = "get_impact"       -> get_impact_on(ns, req.entity_id)
      [] req.op = "can_parallelize"  ->
            can_parallelize_on(ns, req.change_a, req.change_b)
      [] req.op = "find_conflicts"   ->
            find_conflicts_on(ns, req.entity_id, req.in_flight_entities)
      [] req.op = "get_change_order" -> get_change_order_on(ns, req.entities)
      [] req.op = "analyze_change_risk" ->
            analyze_change_risk_on(ns, req.entity_id)

----------------------------------------------------------------------------
(* The queries of both services, one at a time.  The index and the query    *)
(* service share no state: a state has either an index built from a file    *)
(* or a file at graph_path.                                                 *)

InitFrame == Init \/ InitBuilder

\* a query of the index: what it returns, the object returned, and what it
\* leaves of the index
IndexQuery(req) ==
    /\ \E r \in {Perform(nodes, req)} :
          /\ call' = [request |-> req, op |-> req.op, result |-> r.result,
                      object |-> r.object]
          /\ nodes' = r.nodes
    /\ UNCHANGED <<entitiesFile, specs, graphFile, genResult, passes, builderVars, run>>

\* the index takes a query when the last one has been answered
Ready == Idle /\ gcall = NoCall

QueryDependencies ==
    /\ Ready
    /\ \E id \in Ids : IndexQuery([op |-> "get_dependencies", entity_id |-> id])

QueryDependents ==
    /\ Ready
    /\ \E id \in Ids : IndexQuery([op |-> "get_dependents", entity_id |-> id])

QueryImpact ==
    /\ Ready
    /\ \E id \in Ids : IndexQuery([op |-> "get_impact", entity_id |-> id])

QueryParallelize ==
    /\ Ready
    /\ \E a \in Ids, b \in Ids :
          IndexQuery([op |-> "can_parallelize", change_a |-> a, change_b |-> b])

QueryConflicts ==
    /\ Ready
    /\ \E id \in Ids, inFlight \in SeqsUpTo(Ids, MaxInFlight) :
          IndexQuery([op |-> "find_conflicts", entity_id |-> id,
                      in_flight_entities |-> inFlight])

QueryChangeOrder ==
    /\ Ready
    /\ \E ids \in SeqsUpTo(Ids, MaxLen) :
          IndexQuery([op |-> "get_change_order", entities |-> ids])

QueryRisk ==
    /\ Ready
    /\ \E id \in Ids :
          IndexQuery([op |-> "analyze_change_risk", entity_id |-> id])

\* the caller of the index drops the result
ReturnIndex ==
    /\ ~Idle
    /\ call' = NoCall
    /\ UNCHANGED <<entitiesFile, nodes, specs, graphFile, genResult, passes,
                   builderVars, run>>

NextFrame ==
    \/ /\ BuilderUnused
       /\ \/ QueryDependencies \/ QueryDependents \/ QueryImpact
          \/ QueryParallelize \/ QueryConflicts \/ QueryChangeOrder
          \/ QueryRisk \/ ReturnIndex
    \/ /\ IndexUnused
       /\ Idle
       /\ \/ Queries \/ ReturnQuery

SpecFrame == InitFrame /\ [][NextFrame]_vars

\* what the query operators of the index answer for a request
Expected(ns, req) ==
    CASE req.op = "get_dependencies" -> get_dependencies(ns, req.entity_id)
      [] req.op = "get_dependents"   -> get_dependents(ns, req.entity_id)
      [] req.op = "get_impact"       -> get_impact(ns, req.entity_id)
      [] req.op = "can_parallelize"  -> can_parallelize(ns, req.change_a, req.change_b)
      [] req.op = "find_conflicts"   ->
            find_conflicts(ns, req.entity_id, req.in_flight_entities)
      [] req.op = "get_change_order" -> get_change_order(ns, req.entities)
      [] req.op = "analyze_change_risk" -> analyze_change_risk(ns, req.entity_id)

(* C23: no query changes the state it reads.  Across every step the         *)
(* dependencies and dependents sets of every node of the index are what     *)
(* they were, and so are the nodes and edges of the snapshot once it is     *)
(* loaded; what a DependencyGraph query returns is an object of its own,    *)
(* not one of the index's sets.                                             *)
C23_QueriesReadOnly ==
    /\ [][/\ nodes' = nodes
          /\ cache.loaded => /\ cache'.loaded
                             /\ cache'.graph.nodes = cache.graph.nodes
                             /\ cache'.graph.edges = cache.graph.edges]_vars
    /\ []("request" \in DOMAIN call
          => /\ call.object = Local
             /\ call.result = Expected(nodes, call.request))

\* a traversal of the index that returned a set with members
C23_Witness ==
    /\ "request" \in DOMAIN call
    /\ call.op \in {"get_dependencies", "get_dependents"}
    /\ call.result # {}
    /\ \E id \in DOMAIN nodes : nodes[id].dependents # {}

----------------------------------------------------------------------------
(* Where the document is written and where the query service reads.  A      *)
(* path is the sequence of its components.                                  *)

\* graph_dir = output_dir / 'data'; graph_path = graph_dir / 'graph.json'
graph_path(output_dir) == output_dir \o <<"data", "graph.json">>

\* GraphBuilder(graph_path) for the data directory dir: dir / 'graph.json',
\* as in the default Path('src/data/graph.json')
builder_path(dir) == dir \o <<"graph.json">>

\* the output directories generate_graph is called with: src_path / "data"
\* by compile_all, a temporary directory by a caller of its own
OutputDirs == {<<"src", "data">>, <<"tmp">>}

\* the file at path after doc was written at written: the document when the
\* two paths are the same file, what was there before otherwise
FileAt(path, written, doc, before) == IF path = written THEN doc ELSE before

\* generate_graph(specs, output_dir), with the file at output_dir/graph.json
\* in view
GenerateInto ==
    /\ genResult.status = "none"
    /\ \E dir \in OutputDirs :
          IF RaisesKeyError(specs)
          THEN /\ genResult' = [status |-> "KeyError", output_dir |-> dir]
               /\ UNCHANGED <<graphFile, diskGraph>>
          ELSE /\ graphFile' = graph_document(specs)
               /\ genResult' = [status |-> "returned", output_dir |-> dir,
                                paths |-> <<graph_path(dir)>>]
               /\ diskGraph' = FileAt(builder_path(dir), graph_path(dir),
                                      graphFile', diskGraph)
    /\ UNCHANGED <<specs, entitiesFile, nodes, call, passes, cache, reads,
                   gcall, threads, run>>

\* after the pass a GraphBuilder for output_dir/graph.json is asked for the
\* graph
NextArtifact ==
    \/ GenerateInto
    \/ (genResult.status # "none" /\ GetGraph)
    \/ ReturnQuery

SpecArtifact == InitGen /\ [][NextArtifact]_vars

(* C24: generate_graph(specs, output_dir) persists the document at          *)
(* output_dir/graph.json and returns exactly that one path, so that a       *)
(* GraphBuilder pointed at the same data directory loads the document the   *)
(* pass wrote.                                                              *)
C24_WrittenWhereLoaded ==
    genResult.status = "returned"
    => /\ genResult.paths = <<builder_path(genResult.output_dir)>>
       /\ diskGraph.exists
       /\ diskGraph.nodes = graphFile.nodes
       /\ diskGraph.edges = graphFile.edges
       /\ gcall.op = "get_graph"
          => /\ gcall.result.nodes = graphFile.nodes
             /\ gcall.result.edges = graphFile.edges

\* what the code does instead: one path is returned, it is
\* output_dir/data/graph.json, and the query service for output_dir/graph.json
\* finds no file and serves the empty graph
C24_WrittenBelowData ==
    genResult.status = "returned"
    => /\ genResult.paths = <<graph_path(genResult.output_dir)>>
       /\ graphFile.exists
       /\ ~diskGraph.exists
       /\ gcall.op = "get_graph" => gcall.result = EmptyGraph

----------------------------------------------------------------------------
(* The adjacency of the index after construction *)

\* the ids of the records of entities.json
RecordIds(file) == {file.entities[i].id : i \in DOMAIN file.entities}

\* a record of s declares a relationship with target t
Declares(file, s, t) ==
    \E i \in DOMAIN file.entities :
       /\ file.entities[i].id = s
       /\ t \in Range(file.entities[i].relationships)

(* C25: after construction the adjacency is consistent in both directions:  *)
(* for known ids s and t, t is in the dependencies of s exactly when s is   *)
(* in the dependents of t; every member of a dependencies or dependents set *)
(* is a known id; and a relationship whose target is unknown adds nothing,  *)
(* so that the dependencies of s are the known targets its records declare. *)
C25_AdjacencyConsistent ==
    /\ DOMAIN nodes = RecordIds(entitiesFile)
    /\ \A s \in DOMAIN nodes :
          /\ nodes[s].dependencies \subseteq DOMAIN nodes
          /\ nodes[s].dependents \subseteq DOMAIN nodes
          /\ nodes[s].dependencies =
                {t \in DOMAIN nodes : Declares(entitiesFile, s, t)}
          /\ \A t \in DOMAIN nodes :
                (t \in nodes[s].dependencies) <=> (s \in nodes[t].dependents)

\* an index built from records of which one declares a relationship with a
\* known entity and one with an entity that has no record
C25_Witness ==
    /\ \E s \in DOMAIN nodes : nodes[s].dependencies # {}
    /\ \E s \in DOMAIN nodes, t \in Ids :
          t \notin DOMAIN nodes /\ Declares(entitiesFile, s, t)

----------------------------------------------------------------------------
(* build_from_specs invoked again on the same DependencyGraph after         *)
(* entities.json was edited.                                                *)

\* the file with the relationships of record i replaced
WithRelationships(file, i, rels) ==
    [file EXCEPT !.entities[i].relationships = rels]

\* the edits of entities.json: the last record removed, the last
\* relationship of a record removed, a record added, a relationship added,
\* the file deleted or created
EditedFiles(file) ==
    IF ~file.exists
    THEN {[exists |-> TRUE, entities |-> <<[id |-> 1, relationships |-> << >>]>>]}
    ELSE LET es == file.entities
             k == Len(es)
         IN  {NoFile}
             \cup {[file EXCEPT !.entities = Front(es)] : x \in {1} \cap DOMAIN es}
             \cup {WithRelationships(file, i, Front(es[i].relationships)) :
                      i \in {j \in DOMAIN es : es[j].relationships # << >>}}
             \cup {[file EXCEPT !.entities =
                       Append(es, [id |-> k + 1, relationships |-> << >>])] :
                      x \in {k + 1} \cap Ids}
             \cup UNION {{WithRelationships(file, i, Append(es[i].relationships, t)) :
                             t \in Ids \ Range(es[i].relationships)} :
                         i \in DOMAIN es}

\* the entity records change while the DependencyGraph lives on
EditEntities ==
    /\ call = NoCall
    /\ \E file \in EditedFiles(entitiesFile) :
          /\ entitiesFile' = file
          /\ call' = [op |-> "edited", before |-> entitiesFile]
    /\ UNCHANGED <<nodes, specs, graphFile, genResult, passes, builderVars, run>>

\* self.build_from_specs() on the index as it is
Rebuild ==
    /\ call.op = "edited"
    /\ nodes' = build_from_specs(nodes, entitiesFile)
    /\ call' = [op |-> "build_from_specs", before |-> call.before]
    /\ UNCHANGED <<entitiesFile, specs, graphFile, genResult, passes, builderVars, run>>

NextRebuild == EditEntities \/ Rebuild

SpecRebuild == Init /\ [][NextRebuild]_vars

(* C26: the index holds no state from an earlier build: after               *)
(* build_from_specs is invoked again on edited records, the index equals    *)
(* the one a freshly constructed DependencyGraph builds from the same       *)
(* records.                                                                 *)
C26_RebuildEqualsFresh ==
    call.op = "build_from_specs"
    => nodes = build_from_specs(EmptyNodes, entitiesFile)

\* what does hold: after edits that only add records or relationships the
\* rebuilt index is the fresh one
C26_RebuildAfterAdditions ==
    (/\ call.op = "build_from_specs"
     /\ entitiesFile.exists
     /\ RecordIds(call.before) \subseteq RecordIds(entitiesFile)
     /\ \A s \in Ids, t \in Ids :
           Declares(call.before, s, t) => Declares(entitiesFile, s, t))
    => nodes = build_from_specs(EmptyNodes, entitiesFile)

----------------------------------------------------------------------------
(* The document after a sequence of compile passes *)

\* the most recent pass that wrote a document
LastPass == passes[Len(passes)]

----------------------------------------------------------------------------
(* The change order and transitive dependencies *)

\* the position of id x in the list s of distinct ids
PositionIn(s, x) == CHOOSE i \in DOMAIN s : s[i] = x

(* C28: for an acyclic index and a list of pairwise distinct ids, whenever  *)
(* b is in get_dependencies(a) and both are in the list, b precedes a in    *)
(* get_change_order(list), also when the entities on the dependency path    *)
(* between a and b are not in the list.                                     *)
C28_TransitiveOrder ==
    (OrderCall /\ Distinct(call.entities) /\ Acyclic(DependsOn(nodes)))
    => \A a \in Range(call.entities), b \in Range(call.entities) :
          b \in get_dependencies(nodes, a)
          => PositionIn(call.result, b) < PositionIn(call.result, a)

\* what does hold: b precedes a when a dependency path from a to b runs
\* through ids of the list only
C28_OrderAlongListedPaths ==
    (OrderCall /\ Distinct(call.entities) /\ Acyclic(DependsOn(nodes)))
    => \A p \in TransitiveClosure(Induced(nodes, call.entities)) :
          PositionIn(call.result, p[2]) < PositionIn(call.result, p[1])

----------------------------------------------------------------------------
(* The change order of a list with a repeated id *)

(* C29: for a list in which an id occurs more than once and whose induced   *)
(* dependency subgraph is acyclic, get_change_order returns a list with the *)
(* same ids in the same multiplicities, in which no id occurs before any of *)
(* its direct dependencies that is in the list.                             *)
C29_RepeatedIdsOrdered ==
    (OrderCall /\ ~Distinct(call.entities) /\ Acyclic(Induced(nodes, call.entities)))
    => /\ IsPermutation(call.result, call.entities)
       /\ \A i, j \in DOMAIN call.result :
             <<call.result[i], call.result[j]>> \in Induced(nodes, call.entities)
             => j < i

\* what does hold for every list: the same ids in the same multiplicities
C29_SameMultiplicities ==
    OrderCall => IsPermutation(call.result, call.entities)

----------------------------------------------------------------------------
(* Monotonicity of impact sets *)

\* b is a direct or transitive dependency of a, or the other way round
DependsTransitively(ns, a, b) ==
    \/ b \in Reachable(DependsOn(ns), a)
    \/ a \in Reachable(DependsOn(ns), b)

\* some entity depends, directly or transitively, on both a and b
CommonDependent(ns, a, b) ==
    Reachable(DependedBy(ns), a) \cap Reachable(DependedBy(ns), b) # {}

\* C30: every id x of the impact set returned for any id y has its own
\* impact set inside it; and can_parallelize(a, b) is False
\* whenever one of a, b depends on the other directly or transitively, or
\* some entity depends on both of them.
C30_ImpactMonotone ==
    /\ call.op = "get_impact"
       => \A x \in call.result : get_impact(nodes, x) \subseteq call.result
    /\ (/\ call.op = "can_parallelize"
        /\ \/ DependsTransitively(nodes, call.change_a, call.change_b)
           \/ CommonDependent(nodes, call.change_a, call.change_b))
       => call.result = FALSE

\* can_parallelize refused for a dependency that is reached through a third
\* entity only, the two having no direct edge
C30_Witness ==
    /\ call.op = "can_parallelize"
    /\ call.change_a # call.change_b
    /\ call.change_b \in Reachable(DependsOn(nodes), call.change_a)
    /\ <<call.change_a, call.change_b>> \notin DependsOn(nodes)
    /\ Cardinality(get_impact(nodes, call.change_b)) >= 3
    /\ call.result = FALSE

====
